---- MODULE Spec2Model ----
(***************************************************************************)
(* Model of the event-driven backtesting core of vnpy's cta_strategy app:  *)
(* BacktestingEngine (backtesting.py) driving a CtaTemplate strategy       *)
(* (template.py).  The strategy is the environment: inside every callback  *)
(* the engine hands to it, it may call buy/sell/short/cover, cancel_order, *)
(* cancel_all, raise an exception, or return.                              *)
(***************************************************************************)
EXTENDS Integers, Sequences, FiniteSets, TLC

VARIABLES
    mode,                 \* BacktestingEngine.mode: "BAR" or "TICK"
    x_second,             \* strategy.x_second as last read by new_bar; NoAttr: no such attribute
    days,                 \* BacktestingEngine.days
    callback,             \* BacktestingEngine.callback is set (TRUE) or None (FALSE)
    pc,                   \* position of the engine inside run_backtesting / new_bar / cross_*
    cb,                   \* strategy callback currently executing, "none" when the engine runs
    call,                 \* last engine call the strategy made in the current callback
    n,                    \* number of data points of history_data enumerated so far
    exhausted,            \* history_data has no element after the n-th
    data,                 \* the data point under the loop variable (engine.bar / engine.tick);
                          \* during warm-up the engine reads its datetime only
    day_count,            \* run_backtesting local day_count
    datetime,             \* BacktestingEngine.datetime (a date; NoDate for None)
    inited,               \* strategy.inited
    trading,              \* strategy.trading
    pos,                  \* strategy.pos
    limit_orders,         \* BacktestingEngine.limit_orders, indexed by order sequence number
    active_limit_orders,  \* keys of BacktestingEngine.active_limit_orders, in insertion order
    stop_orders,          \* BacktestingEngine.stop_orders, indexed by stop sequence number
    active_stop_orders,   \* keys of BacktestingEngine.active_stop_orders, in insertion order
    trades,               \* BacktestingEngine.trades, in insertion order
    daily_results,        \* BacktestingEngine.daily_results, in insertion order
    snap,                 \* the list(...) snapshot a crossing loop still has to iterate
    steps,                \* engine steps performed for the current run-phase data point
    calls,                \* order/trade notifications pushed to the strategy so far
    daily_df,             \* BacktestingEngine.daily_df: NoFrame for None, else the frame
    start,                \* BacktestingEngine.start (a day number; NoDate for None)
    end_,                 \* BacktestingEngine.end (a day number; NoDate for None)
    history_data,         \* the dates of BacktestingEngine.history_data as load_data left
                          \* them; Provider where the history is whatever the data
                          \* provider delivers, revealed point by point
    load_report,          \* what the last load_data call reported
    params,               \* OptimizationSetting.params, a dict in insertion order
    target_name,          \* OptimizationSetting.target_name
    opt_call,             \* the last add_parameter call: its arguments and how it ended
    opt_pc,               \* position inside run_optimization / run_ga_optimization
    tasks,                \* run_optimization: the settings submitted to the pool, in order
    task_values,          \* run_optimization: target value of each finished task
    finished,             \* run_optimization: the tasks in the order the workers finished
    result_values,        \* what the last run_optimization / run_ga_optimization returned
    ga_target_name,       \* module global ga_target_name
    cache,                \* the lru_cache of _ga_optimize; each entry also remembers the
                          \* ga_target_name it was computed under
    evaluated,            \* run_ga_optimization: individuals evaluated in this search
    ga_last,              \* the last ga_optimize call: what it returned, and what an
                          \* uncached optimize call would have returned
    size,                 \* BacktestingEngine.size
    rate_type,            \* BacktestingEngine.rate_type: "FIXED" or "FLOAT"
    rate,                 \* BacktestingEngine.rate
    slippage,             \* BacktestingEngine.slippage
    trade_result,         \* what the last calculate_trade_result computed
    statistics,           \* how the last calculate_statistics ended, and what it returned
    interval,             \* BacktestingEngine.interval
    loader,               \* load_data: its position, its locals start and end, and the
                          \* loader calls it has made
    datasource_api,       \* SETTINGS["datasource.api"]
    threads,              \* ChartWizardEngine: the worker threads query_history has
                          \* started, in call order: position, contract found, data
    event_queue,          \* the events put on the event engine, in order
    active_orderids,      \* TargetPosTemplate.active_orderids
    cancel_orderids,      \* TargetPosTemplate.cancel_orderids
    target_pos,           \* TargetPosTemplate.target_pos
    last_tick,            \* TargetPosTemplate.last_tick: NoTick for None, else the tick
    trade_net_volume,     \* CtaTemplate.trade_net_volume
    open_cost_price,      \* CtaTemplate.open_cost_price
    trade_pnl,            \* CtaTemplate.trade_pnl
    trade_commission,     \* CtaTemplate.trade_commission
    trade_slippage,       \* CtaTemplate.trade_slippage
    strategy_net_pnl,     \* CtaTemplate.net_pnl
    strategy_balance,     \* CtaTemplate.balance
    trade_net_volume_list, \* CtaTemplate.trade_net_volume_list
    trade_pnl_list,       \* CtaTemplate.trade_pnl_list
    commission_list,      \* CtaTemplate.commission_list
    slippage_list         \* CtaTemplate.slippage_list

vars == << mode, x_second, days, callback, pc, cb, call, n, exhausted, data,
           day_count, datetime, inited, trading, pos, limit_orders,
           active_limit_orders, stop_orders, active_stop_orders, trades,
           daily_results, snap, steps, calls, daily_df,
           start, end_, history_data, load_report,
           params, target_name, opt_call, opt_pc, tasks, task_values, finished,
           result_values, ga_target_name, cache, evaluated, ga_last,
           size, rate_type, rate, slippage, trade_result, statistics,
           interval, loader,
           datasource_api, threads, event_queue,
           active_orderids, cancel_orderids, target_pos, last_tick,
           trade_net_volume, open_cost_price, trade_pnl, trade_commission,
           trade_slippage, strategy_net_pnl, strategy_balance, trade_net_volume_list,
           trade_pnl_list,
           commission_list, slippage_list >>

\* configuration, and the state that run_backtesting and the strategy never touch
optimization == << params, target_name, opt_call, opt_pc, tasks, task_values, finished,
                   result_values, ga_target_name, cache, evaluated, ga_last >>
costs   == << size, rate_type, rate, slippage >>
reports == << trade_result, statistics >>
loading == << interval, loader >>
chart   == << datasource_api, threads, event_queue >>
targeting == << active_orderids, cancel_orderids, target_pos, last_tick >>
balancing == << trade_net_volume, open_cost_price, trade_pnl, trade_commission,
                trade_slippage, strategy_net_pnl, strategy_balance, trade_net_volume_list,
                trade_pnl_list, commission_list, slippage_list >>
apps    == << chart, targeting, balancing >>
config == << mode, daily_df, start, end_, history_data, load_report, optimization,
             costs, reports, loading, apps >>
books  == << limit_orders, active_limit_orders, stop_orders, active_stop_orders,
             trades, pos, calls >>
feed   == << n, exhausted, data >>

----
\* Bounds of the model
MaxData   == 4      \* longest history replayed
MaxOrders == 1      \* orders (limit or stop) a strategy submits in one run
MaxPrice  == 2      \* prices are 1..MaxPrice, in units of pricetick
MaxVolume == 1      \* order volumes are 0..MaxVolume
MaxDays   == 1      \* warm-up horizons a strategy asks for are 1..MaxDays

NoAttr  == -1
NoDate  == 0
Now     == 33
Provider == "provider"
NoData  == [dt |-> NoDate]
NoCall  == [op |-> "none"]
\* load_data is not running
NotLoading == [pc |-> "idle"]
\* daily_df: None, and the frame calculate_result builds from the daily results
NoFrame == << >>
Frame(rows) == << rows >>

Modes     == {"BAR", "TICK"}
XSeconds  == {NoAttr, 30, 60, 120}
Dates     == {1, 2, 32}          \* day numbers: 1 Jan, 2 Jan, 1 Feb
Prices    == 1 .. MaxPrice
Volumes   == 0 .. MaxVolume

STOPORDER_PREFIX == "STOP"
gateway_name     == "BACKTESTING"

\* datetime.day and datetime.date() of a day number
DayOfMonth(d) == ((d - 1) % 31) + 1
DateOf(d)     == d

\* BarData / TickData the provider can deliver
Bars ==
    { [dt |-> d, open_price |-> o, high_price |-> h, low_price |-> l, close_price |-> c] :
        d \in Dates, o \in Prices, h \in Prices, l \in Prices, c \in Prices }
WellFormedBar(b) ==
    /\ b.low_price <= b.open_price /\ b.open_price <= b.high_price
    /\ b.low_price <= b.close_price /\ b.close_price <= b.high_price
Ticks ==
    { [dt |-> d, last_price |-> p, bid_price_1 |-> b, ask_price_1 |-> a] :
        d \in Dates, p \in Prices, b \in 0 .. MaxPrice, a \in 0 .. MaxPrice }
WellFormedTick(t) ==
    t.bid_price_1 = 0 \/ t.ask_price_1 = 0 \/ t.bid_price_1 <= t.ask_price_1

DataOf(m) == IF m = "BAR" THEN { b \in Bars : WellFormedBar(b) }
                          ELSE { t \in Ticks : WellFormedTick(t) }

----
\* Helpers on insertion-ordered dictionaries kept as sequences of keys
Range(s) == { s[i] : i \in 1 .. Len(s) }
Remove(s, k) == SelectSeq(s, LAMBDA x : x # k)

Min(a, b) == IF a <= b THEN a ELSE b
Max(a, b) == IF a >= b THEN a ELSE b

\* BacktestingEngine.pricetick as configured by set_parameters (prices are counted in ticks)
pricetick == 1

\* vnpy.trader.utility.round_to: round(value / target) * target
round_to(value, target) == ((2 * value + target) \div (2 * target)) * target

limit_order_count == Len(limit_orders)
stop_order_count  == Len(stop_orders)
trade_count       == Len(trades)

PosChange(t) == IF t.direction = "LONG" THEN t.volume ELSE 0 - t.volume

RECURSIVE SumPosChange(_)
SumPosChange(ts) ==
    IF ts = << >> THEN 0 ELSE PosChange(Head(ts)) + SumPosChange(Tail(ts))

\* ids of the orders synthesized by triggered stop orders
Synthesized == UNION { Range(stop_orders[i].vt_orderids) : i \in 1 .. Len(stop_orders) }
\* orders the strategy has submitted so far
Submitted == Len(stop_orders) + Cardinality((1 .. Len(limit_orders)) \ Synthesized)

----
\* BacktestingEngine.__init__ and CtaTemplate.__init__, with the mode of set_parameters
EngineInit ==
    /\ mode \in Modes
    /\ x_second = NoAttr
    /\ days = 0
    /\ callback = FALSE
    /\ pc = "idle"
    /\ cb = "none"
    /\ call = NoCall
    /\ n = 0
    /\ exhausted = FALSE
    /\ data = NoData
    /\ day_count = 0
    /\ datetime = NoDate
    /\ inited = FALSE
    /\ trading = FALSE
    /\ pos = 0
    /\ limit_orders = << >>
    /\ active_limit_orders = << >>
    /\ stop_orders = << >>
    /\ active_stop_orders = << >>
    /\ trades = << >>
    /\ daily_results = << >>
    /\ snap = << >>
    /\ steps = << >>
    /\ calls = << >>
    /\ daily_df = NoFrame
    /\ size = 1
    /\ rate_type = "FIXED"
    /\ rate = 0
    /\ slippage = 0
    /\ trade_result = NoCall
    /\ statistics = NoCall
    /\ loader = NotLoading

NoCall_  == [op |-> "none"]
NoResult == [kind |-> "nothing"]
None     == [kind |-> "None"]

\* OptimizationSetting.__init__, no optimization running, the GA globals and the
\* lru_cache as the module is imported
OptimizationIdle ==
    /\ params = << >>
    /\ target_name = ""
    /\ opt_call = NoCall_
    /\ opt_pc = "idle"
    /\ tasks = << >> /\ task_values = << >> /\ finished = << >>
    /\ result_values = NoResult
    /\ ga_target_name = ""
    /\ cache = {}
    /\ evaluated = {}
    /\ ga_last = NoCall_

\* ChartWizardEngine with no request made, SETTINGS as setting.py defines it
ChartIdle ==
    /\ datasource_api = ""
    /\ threads = << >>
    /\ event_queue = << >>

\* CtaTemplate.__init__: the attributes calculate_balance works on (balance is set
\* by get_contract_data)
BalanceUnset ==
    /\ trade_net_volume = 0
    /\ open_cost_price = 0
    /\ trade_pnl = 0
    /\ trade_commission = 0
    /\ trade_slippage = 0
    /\ strategy_net_pnl = 0
    /\ strategy_balance = 0
    /\ trade_net_volume_list = << >>
    /\ trade_pnl_list = << >>
    /\ commission_list = << >>
    /\ slippage_list = << >>

\* TargetPosTemplate.__init__ and the class attributes it leaves alone
NoTick == << >>
TargetPosInit ==
    /\ active_orderids = << >>
    /\ cancel_orderids = << >>
    /\ target_pos = 0
    /\ last_tick = NoTick

\* the applications and strategy templates around the backtesting engine, none of
\* them in use
AppsIdle == ChartIdle /\ TargetPosInit /\ BalanceUnset

\* State after BacktestingEngine() + set_parameters + add_strategy + load_data, the
\* loaded history left to the provider
Init ==
    /\ EngineInit
    /\ AppsIdle
    /\ interval = "1m"
    /\ start = NoDate /\ end_ = NoDate
    /\ history_data = Provider
    /\ load_report = "none"
    /\ OptimizationIdle

----
\* Notifications pushed to the strategy
OnOrder(o)      == [cb |-> "on_order", id |-> o.orderid, status |-> o.status]
OnStopOrder(so) == [cb |-> "on_stop_order", id |-> so.stop_orderid, status |-> so.status]
OnTrade(t)      == [cb |-> "on_trade", id |-> t.tradeid, status |-> "TRADE"]

LimitId(k) == [prefix |-> gateway_name, seq |-> k]
StopId(k)  == [prefix |-> STOPORDER_PREFIX, seq |-> k]
OrderIds   == { [prefix |-> p, seq |-> k] :
                  p \in {gateway_name, STOPORDER_PREFIX}, k \in 1 .. MaxOrders }

----
\* Every order record carries in "sent" the number of data points the run had
\* enumerated when the order was created (bookkeeping: the data point it was sent on).

\* BacktestingEngine.send_limit_order
send_limit_order(direction, offset, price, volume) ==
    LET k == limit_order_count + 1
        order == [orderid |-> k, direction |-> direction, offset |-> offset,
                  price |-> price, volume |-> volume, traded |-> 0,
                  status |-> "SUBMITTING", sent |-> n]
    IN  /\ limit_orders' = Append(limit_orders, order)
        /\ active_limit_orders' = Append(active_limit_orders, k)
        /\ call' = [op |-> "send_order", ret |-> << LimitId(k) >>]
        /\ UNCHANGED << stop_orders, active_stop_orders >>

\* BacktestingEngine.send_stop_order
send_stop_order(direction, offset, price, volume) ==
    LET k == stop_order_count + 1
        stop_order == [stop_orderid |-> k, direction |-> direction, offset |-> offset,
                       price |-> price, volume |-> volume, status |-> "WAITING",
                       vt_orderids |-> << >>, sent |-> n]
    IN  /\ stop_orders' = Append(stop_orders, stop_order)
        /\ active_stop_orders' = Append(active_stop_orders, k)
        /\ call' = [op |-> "send_order", ret |-> << StopId(k) >>]
        /\ UNCHANGED << limit_orders, active_limit_orders >>

\* BacktestingEngine.send_order
engine_send_order(direction, offset, price, volume, stop) ==
    LET p == round_to(price, pricetick)
    IN  IF stop THEN send_stop_order(direction, offset, p, volume)
                ELSE send_limit_order(direction, offset, p, volume)

\* CtaTemplate.send_order without the test of self.trading
send_order_unguarded(direction, offset, price, volume, stop) ==
    /\ cb # "none"
    /\ Submitted < MaxOrders
    /\ engine_send_order(direction, offset, price, volume, stop)
    /\ UNCHANGED << config, x_second, days, callback, pc, cb, feed, day_count, datetime,
                    inited, trading, pos, trades, daily_results, snap, steps, calls >>

\* CtaTemplate.send_order by a strategy that submits at most m orders in one run
send_order_within(m, direction, offset, price, volume, stop) ==
    /\ cb # "none"
    /\ IF trading
       THEN /\ Submitted < m
            /\ engine_send_order(direction, offset, price, volume, stop)
       ELSE /\ call' = [op |-> "send_order", ret |-> << >>]
            /\ UNCHANGED << limit_orders, active_limit_orders, stop_orders,
                            active_stop_orders >>
    /\ UNCHANGED << config, x_second, days, callback, pc, cb, feed, day_count, datetime,
                    inited, trading, pos, trades, daily_results, snap, steps, calls >>

\* CtaTemplate.send_order
send_order(direction, offset, price, volume, stop) ==
    send_order_within(MaxOrders, direction, offset, price, volume, stop)

\* CtaTemplate.buy / sell / short / cover
Buy   == \E price \in Prices, volume \in Volumes, stop \in BOOLEAN :
            send_order("LONG", "OPEN", price, volume, stop)
Sell  == \E price \in Prices, volume \in Volumes, stop \in BOOLEAN :
            send_order("SHORT", "CLOSE", price, volume, stop)
Short == \E price \in Prices, volume \in Volumes, stop \in BOOLEAN :
            send_order("SHORT", "OPEN", price, volume, stop)
Cover == \E price \in Prices, volume \in Volumes, stop \in BOOLEAN :
            send_order("LONG", "CLOSE", price, volume, stop)

----
\* cancel_limit_order without the test that the order is active
cancel_limit_order_unguarded(k) ==
    IF k \notin 1 .. Len(limit_orders)
    THEN UNCHANGED << limit_orders, active_limit_orders, calls >>
    ELSE LET order == [limit_orders[k] EXCEPT !.status = "CANCELLED"]
         IN  /\ active_limit_orders' = Remove(active_limit_orders, k)
             /\ limit_orders' = [limit_orders EXCEPT ![k] = order]
             /\ calls' = Append(calls, OnOrder(order))

\* BacktestingEngine.cancel_limit_order
cancel_limit_order(k) ==
    IF k \notin Range(active_limit_orders)
    THEN UNCHANGED << limit_orders, active_limit_orders, calls >>
    ELSE LET order == [limit_orders[k] EXCEPT !.status = "CANCELLED"]
         IN  /\ active_limit_orders' = Remove(active_limit_orders, k)
             /\ limit_orders' = [limit_orders EXCEPT ![k] = order]
             /\ calls' = Append(calls, OnOrder(order))

\* cancel_stop_order that pops the stop order and leaves its status alone
cancel_stop_order_status_kept(k) ==
    IF k \notin Range(active_stop_orders)
    THEN UNCHANGED << stop_orders, active_stop_orders, calls >>
    ELSE /\ active_stop_orders' = Remove(active_stop_orders, k)
         /\ stop_orders' = stop_orders
         /\ calls' = Append(calls, OnStopOrder(stop_orders[k]))

\* BacktestingEngine.cancel_stop_order
cancel_stop_order(k) ==
    IF k \notin Range(active_stop_orders)
    THEN UNCHANGED << stop_orders, active_stop_orders, calls >>
    ELSE LET stop_order == [stop_orders[k] EXCEPT !.status = "CANCELLED"]
         IN  /\ active_stop_orders' = Remove(active_stop_orders, k)
             /\ stop_orders' = [stop_orders EXCEPT ![k] = stop_order]
             /\ calls' = Append(calls, OnStopOrder(stop_order))

\* BacktestingEngine.cancel_order
engine_cancel_order(vt_orderid) ==
    IF vt_orderid.prefix = STOPORDER_PREFIX
    THEN /\ cancel_stop_order(vt_orderid.seq)
         /\ UNCHANGED << limit_orders, active_limit_orders >>
    ELSE /\ cancel_limit_order(vt_orderid.seq)
         /\ UNCHANGED << stop_orders, active_stop_orders >>

\* CtaTemplate.cancel_order
cancel_order(vt_orderid) ==
    /\ cb # "none"
    /\ call' = [op |-> "cancel_order", arg |-> vt_orderid]
    /\ IF trading
       THEN engine_cancel_order(vt_orderid)
       ELSE UNCHANGED << limit_orders, active_limit_orders, stop_orders,
                         active_stop_orders, calls >>
    /\ UNCHANGED << config, x_second, days, callback, pc, cb, feed, day_count,
                    datetime, inited, trading, pos, trades, daily_results,
                    snap, steps >>

\* the strategy calls cancel_order with one of the ids a run can hand out
CancelOrder == \E vt_orderid \in OrderIds : cancel_order(vt_orderid)

\* the orders of book listed in keys, each with status Cancelled
CancelledAll(book, keys) ==
    [k \in 1 .. Len(book) |->
        IF k \in Range(keys) THEN [book[k] EXCEPT !.status = "CANCELLED"] ELSE book[k]]

\* BacktestingEngine.cancel_all: every active limit order, then every active stop order
engine_cancel_all ==
    LET lo == CancelledAll(limit_orders, active_limit_orders)
        so == CancelledAll(stop_orders, active_stop_orders)
    IN  /\ limit_orders' = lo
        /\ stop_orders' = so
        /\ active_limit_orders' = << >>
        /\ active_stop_orders' = << >>
        /\ calls' = calls
                    \o [i \in 1 .. Len(active_limit_orders) |->
                            OnOrder(lo[active_limit_orders[i]])]
                    \o [i \in 1 .. Len(active_stop_orders) |->
                            OnStopOrder(so[active_stop_orders[i]])]

\* CtaTemplate.cancel_all
CancelAll ==
    /\ cb # "none"
    /\ call' = [op |-> "cancel_all"]
    /\ IF trading
       THEN engine_cancel_all
       ELSE UNCHANGED << limit_orders, active_limit_orders, stop_orders,
                         active_stop_orders, calls >>
    /\ UNCHANGED << config, x_second, days, callback, pc, cb, feed, day_count,
                    datetime, inited, trading, pos, trades, daily_results,
                    snap, steps >>

----
\* The strategy leaves the callback normally
Return ==
    /\ cb # "none"
    /\ cb' = "none"
    /\ call' = NoCall
    /\ UNCHANGED << config, x_second, days, callback, pc, feed, day_count, datetime, inited,
                    trading, books, daily_results, snap, steps >>

\* The strategy raises inside the callback.  on_init and on_start are called
\* outside run_backtesting's try blocks; every other callback runs inside one.
Raise ==
    /\ cb # "none"
    /\ pc' = IF cb \in {"on_init", "on_start"} THEN "raised" ELSE "aborted"
    /\ cb' = "none"
    /\ call' = [op |-> "raise", type |-> "Exception"]
    /\ UNCHANGED << config, x_second, days, callback, feed, day_count, datetime, inited,
                    trading, books, daily_results, snap, steps >>

\* The strategy raises AttributeError inside the bar callback that new_bar calls in
\* its try block: "except AttributeError" catches it and calls strategy.on_bar(bar),
\* this time outside the try block.  (Anywhere else an AttributeError is an
\* exception like any other: Raise.)
RaiseAttributeError ==
    /\ mode = "BAR" /\ pc = "daily_close" /\ Len(steps) = 3
    /\ cb \in {"on_bar", "on_second_bar"}
    /\ cb' = "on_bar"
    /\ steps' = Append(steps, "on_bar")
    /\ call' = [op |-> "raise", type |-> "AttributeError"]
    /\ UNCHANGED << config, x_second, days, callback, pc, feed, day_count, datetime, inited,
                    trading, books, daily_results, snap >>

\* CtaTemplate.load_bar -> BacktestingEngine.load_bar, called from on_init
load_bar(d) ==
    /\ cb = "on_init"
    /\ days' = d
    /\ callback' = TRUE
    /\ UNCHANGED << config, x_second, pc, cb, call, feed, day_count, datetime, inited,
                    trading, books, daily_results, snap, steps >>
LoadBar == \E d \in 1 .. MaxDays : load_bar(d)

\* CtaTemplate.load_tick passes four arguments to BacktestingEngine.load_tick,
\* which takes three: the call raises TypeError inside on_init
LoadTick ==
    /\ cb = "on_init"
    /\ pc' = "raised"
    /\ cb' = "none"
    /\ call' = NoCall
    /\ UNCHANGED << config, x_second, days, callback, feed, day_count, datetime, inited,
                    trading, books, daily_results, snap, steps >>

----
\* BacktestingEngine.run_backtesting, up to the call of strategy.on_init
RunBacktesting ==
    /\ pc = "idle"
    /\ cb' = "on_init"
    /\ day_count' = 0
    /\ pc' = "warm_loop"
    /\ UNCHANGED << config, x_second, days, callback, call, feed, datetime, inited, trading,
                    books, daily_results, snap, steps >>

\* data points that may follow the ones enumerated so far (history is chronological)
NextData == { d \in DataOf(mode) : d.dt >= data.dt }

\* one iteration of the warm-up loop of run_backtesting
WarmUp ==
    /\ pc = "warm_loop" /\ cb = "none"
    /\ ~exhausted /\ n < MaxData
    /\ \E d \in { [dt |-> t] : t \in { t \in Dates : t >= data.dt } } :
        LET newday == datetime # NoDate /\ DayOfMonth(d.dt) # DayOfMonth(datetime)
            dc     == IF newday THEN day_count + 1 ELSE day_count
        IN  /\ n' = n + 1
            /\ data' = d
            /\ day_count' = dc
            /\ IF newday /\ dc >= days
               THEN /\ pc' = "start"
                    /\ UNCHANGED << datetime, cb >>
               ELSE /\ datetime' = d.dt
                    /\ IF callback
                       THEN /\ cb' = "warm_up"
                            /\ pc' = "warm_loop"
                       ELSE /\ cb' = "none"
                            /\ pc' = "aborted"
    /\ UNCHANGED << config, x_second, days, callback, call, exhausted, inited, trading, books,
                    daily_results, snap, steps >>

\* the warm-up loop runs off the end of history_data
WarmUpEnd ==
    /\ pc = "warm_loop" /\ cb = "none"
    /\ exhausted' = TRUE
    /\ pc' = "start"
    /\ UNCHANGED << config, x_second, days, callback, cb, call, n, data, day_count, datetime,
                    inited, trading, books, daily_results, snap, steps >>

\* run_backtesting: strategy.inited = True; strategy.on_start()
Start ==
    /\ pc = "start" /\ cb = "none"
    /\ inited' = TRUE
    /\ cb' = "on_start"
    /\ pc' = "set_trading"
    /\ UNCHANGED << config, x_second, days, callback, call, feed, day_count, datetime, trading,
                    books, daily_results, snap, steps >>

\* run_backtesting: strategy.trading = True; the run loop starts at history_data[ix]
SetTrading ==
    /\ pc = "set_trading" /\ cb = "none"
    /\ trading' = TRUE
    /\ pc' = IF n > 0 THEN "run_first" ELSE "run_loop"
    /\ UNCHANGED << config, x_second, days, callback, cb, call, feed, day_count, datetime,
                    inited, books, daily_results, snap, steps >>

\* BacktestingEngine.new_bar / new_tick up to the list(...) of cross_limit_order
new_data(d) ==
    /\ x_second' = NoAttr
    /\ datetime' = d.dt
    /\ steps' = << "cross_limit_order" >>
    /\ snap' = active_limit_orders
    /\ pc' = "limit_loop"

\* first iteration of the run loop: the data point at index ix, the last one the
\* warm-up loop enumerated
RunFirst ==
    /\ pc = "run_first" /\ cb = "none"
    /\ \E d \in { d \in DataOf(mode) : d.dt = data.dt } :
        /\ data' = d
        /\ new_data(d)
    /\ UNCHANGED << config, days, callback, cb, call, n, exhausted, day_count, inited,
                    trading, books, daily_results >>

\* a later iteration of the run loop
RunNext ==
    /\ pc = "run_loop" /\ cb = "none"
    /\ ~exhausted /\ n < MaxData
    /\ \E d \in NextData :
        /\ n' = n + 1
        /\ data' = d
        /\ new_data(d)
    /\ UNCHANGED << config, days, callback, cb, call, exhausted, day_count, inited,
                    trading, books, daily_results >>

\* the run loop runs off the end of history_data
RunEnd ==
    /\ pc = "run_loop" /\ cb = "none"
    /\ exhausted' = TRUE
    /\ pc' = "done"
    /\ UNCHANGED << config, x_second, days, callback, cb, call, n, data, day_count, datetime,
                    inited, trading, books, daily_results, snap, steps >>

----
\* cross_limit_order: reference prices of the data point
limit_long_cross_price  == IF mode = "BAR" THEN data.low_price  ELSE data.ask_price_1
limit_short_cross_price == IF mode = "BAR" THEN data.high_price ELSE data.bid_price_1
limit_long_best_price   == IF mode = "BAR" THEN data.open_price ELSE data.ask_price_1
limit_short_best_price  == IF mode = "BAR" THEN data.open_price ELSE data.bid_price_1

\* limit_short_cross with a strict comparison
limit_short_cross_strict(order) ==
    /\ order.direction = "SHORT"
    /\ order.price < limit_short_cross_price
    /\ limit_short_cross_price > 0

\* cross_limit_order: the two crossing tests
limit_long_cross(order) ==
    /\ order.direction = "LONG"
    /\ order.price >= limit_long_cross_price
    /\ limit_long_cross_price > 0
limit_short_cross(order) ==
    /\ order.direction = "SHORT"
    /\ order.price <= limit_short_cross_price
    /\ limit_short_cross_price > 0

\* limit_trade_price that ignores the best price of the data point
limit_trade_price_at_order(order) == order.price

\* cross_limit_order: price of the trade of a crossed order
limit_trade_price(order) ==
    IF limit_long_cross(order)
    THEN Min(order.price, limit_long_best_price)
    ELSE Max(order.price, limit_short_best_price)

\* cross_limit_order that leaves strategy.pos alone
limit_pos_change_none(order) == order.volume - order.volume

\* cross_limit_order: pos_change of a crossed order
limit_pos_change(order) ==
    IF limit_long_cross(order) THEN order.volume ELSE 0 - order.volume

\* cross_limit_order: loop head with an order still Submitting
LimitPending ==
    /\ pc = "limit_loop" /\ cb = "none" /\ snap # << >>
    /\ limit_orders[Head(snap)].status = "SUBMITTING"
    /\ LET order == [limit_orders[Head(snap)] EXCEPT !.status = "NOTTRADED"]
       IN  /\ limit_orders' = [limit_orders EXCEPT ![Head(snap)] = order]
           /\ calls' = Append(calls, OnOrder(order))
    /\ cb' = "on_order"
    /\ pc' = "limit_check"
    /\ UNCHANGED << config, x_second, days, callback, call, feed, day_count, datetime, inited,
                    trading, pos, active_limit_orders, stop_orders,
                    active_stop_orders, trades, daily_results, snap, steps >>

\* cross_limit_order: loop head with an order that is not Submitting
LimitNotPending ==
    /\ pc = "limit_loop" /\ cb = "none" /\ snap # << >>
    /\ limit_orders[Head(snap)].status # "SUBMITTING"
    /\ pc' = "limit_check"
    /\ UNCHANGED << config, x_second, days, callback, cb, call, feed, day_count, datetime,
                    inited, trading, books, daily_results, snap, steps >>

\* cross_limit_order: the order does not cross, continue with the next one
LimitNoCross ==
    /\ pc = "limit_check" /\ cb = "none"
    /\ LET order == limit_orders[Head(snap)]
       IN  ~limit_long_cross(order) /\ ~limit_short_cross(order)
    /\ snap' = Tail(snap)
    /\ pc' = "limit_loop"
    /\ UNCHANGED << config, x_second, days, callback, cb, call, feed, day_count, datetime,
                    inited, trading, books, daily_results, steps >>

\* cross_limit_order: the order crosses, push the AllTraded update
LimitCross ==
    /\ pc = "limit_check" /\ cb = "none"
    /\ LET order == limit_orders[Head(snap)]
           filled == [order EXCEPT !.traded = order.volume, !.status = "ALLTRADED"]
       IN  /\ limit_long_cross(order) \/ limit_short_cross(order)
           /\ limit_orders' = [limit_orders EXCEPT ![Head(snap)] = filled]
           /\ calls' = Append(calls, OnOrder(filled))
    /\ cb' = "on_order"
    /\ pc' = "limit_pop"
    /\ UNCHANGED << config, x_second, days, callback, call, feed, day_count, datetime, inited,
                    trading, pos, active_limit_orders, stop_orders,
                    active_stop_orders, trades, daily_results, snap, steps >>

\* cross_limit_order: active_limit_orders.pop(order.vt_orderid) raises KeyError
\* when the strategy has cancelled the order in the meantime
LimitPopKeyError ==
    /\ pc = "limit_pop" /\ cb = "none"
    /\ Head(snap) \notin Range(active_limit_orders)
    /\ pc' = "aborted"
    /\ UNCHANGED << config, x_second, days, callback, cb, call, feed, day_count, datetime,
                    inited, trading, books, daily_results, snap, steps >>

\* cross_limit_order: pop the order, record the trade, update pos, push the trade
LimitTrade ==
    /\ pc = "limit_pop" /\ cb = "none"
    /\ Head(snap) \in Range(active_limit_orders)
    /\ LET order == limit_orders[Head(snap)]
           trade == [tradeid |-> trade_count + 1, orderid |-> order.orderid,
                     direction |-> order.direction, offset |-> order.offset,
                     price |-> limit_trade_price(order), volume |-> order.volume,
                     datetime |-> datetime]
       IN  /\ active_limit_orders' = Remove(active_limit_orders, Head(snap))
           /\ trades' = Append(trades, trade)
           /\ pos' = pos + limit_pos_change(order)
           /\ calls' = Append(calls, OnTrade(trade))
    /\ cb' = "on_trade"
    /\ snap' = Tail(snap)
    /\ pc' = "limit_loop"
    /\ UNCHANGED << config, x_second, days, callback, call, feed, day_count, datetime, inited,
                    trading, limit_orders, stop_orders, active_stop_orders,
                    daily_results, steps >>

\* new_bar / new_tick: cross_limit_order has returned, cross_stop_order takes its list(...)
CrossStopOrder ==
    /\ pc = "limit_loop" /\ cb = "none" /\ snap = << >>
    /\ steps' = Append(steps, "cross_stop_order")
    /\ snap' = active_stop_orders
    /\ pc' = "stop_loop"
    /\ UNCHANGED << config, x_second, days, callback, cb, call, feed, day_count, datetime,
                    inited, trading, books, daily_results >>

----
\* cross_stop_order: reference prices of the data point
stop_long_cross_price  == IF mode = "BAR" THEN data.high_price ELSE data.last_price
stop_short_cross_price == IF mode = "BAR" THEN data.low_price  ELSE data.last_price
stop_long_best_price   == IF mode = "BAR" THEN data.open_price ELSE data.last_price
stop_short_best_price  == IF mode = "BAR" THEN data.open_price ELSE data.last_price

\* stop_long_cross with a strict comparison
stop_long_cross_strict(stop_order) ==
    /\ stop_order.direction = "LONG"
    /\ stop_order.price < stop_long_cross_price

\* cross_stop_order: the two trigger tests
stop_long_cross(stop_order) ==
    /\ stop_order.direction = "LONG"
    /\ stop_order.price <= stop_long_cross_price
stop_short_cross(stop_order) ==
    /\ stop_order.direction = "SHORT"
    /\ stop_order.price >= stop_short_cross_price

\* cross_stop_order: price of the trade of a triggered stop order
stop_trade_price(stop_order) ==
    IF stop_long_cross(stop_order)
    THEN Max(stop_order.price, stop_long_best_price)
    ELSE Min(stop_order.price, stop_short_best_price)

\* stop_pos_change that forgets the sign of a short trade
stop_pos_change_unsigned(stop_order) == stop_order.volume

\* cross_stop_order: pos_change of a triggered stop order
stop_pos_change(stop_order) ==
    IF stop_long_cross(stop_order) THEN stop_order.volume ELSE 0 - stop_order.volume

\* OrderData(...) as constructed by cross_stop_order; traded keeps OrderData's default
stop_synthesized_order(stop_order, k) ==
    [orderid |-> k, direction |-> stop_order.direction, offset |-> stop_order.offset,
     price |-> stop_order.price, volume |-> stop_order.volume, traded |-> 0,
     status |-> "ALLTRADED", sent |-> n]

\* cross_stop_order: the stop order does not trigger
StopNoCross ==
    /\ pc = "stop_loop" /\ cb = "none" /\ snap # << >>
    /\ LET stop_order == stop_orders[Head(snap)]
       IN  ~stop_long_cross(stop_order) /\ ~stop_short_cross(stop_order)
    /\ snap' = Tail(snap)
    /\ UNCHANGED << config, x_second, days, callback, pc, cb, call, feed, day_count, datetime,
                    inited, trading, books, daily_results, steps >>

\* cross_stop_order: the stop order triggers; the order and the trade are recorded,
\* the stop is marked Triggered and on_stop_order is pushed
StopCross ==
    /\ pc = "stop_loop" /\ cb = "none" /\ snap # << >>
    /\ LET stop_order == stop_orders[Head(snap)]
           order == stop_synthesized_order(stop_order, limit_order_count + 1)
           trade == [tradeid |-> trade_count + 1, orderid |-> order.orderid,
                     direction |-> order.direction, offset |-> order.offset,
                     price |-> stop_trade_price(stop_order), volume |-> order.volume,
                     datetime |-> datetime]
           triggered == [stop_order EXCEPT
                            !.vt_orderids = Append(@, order.orderid),
                            !.status = "TRIGGERED"]
       IN  /\ stop_long_cross(stop_order) \/ stop_short_cross(stop_order)
           /\ limit_orders' = Append(limit_orders, order)
           /\ trades' = Append(trades, trade)
           /\ stop_orders' = [stop_orders EXCEPT ![Head(snap)] = triggered]
           /\ active_stop_orders' = Remove(active_stop_orders, Head(snap))
           /\ calls' = Append(calls, OnStopOrder(triggered))
    /\ cb' = "on_stop_order"
    /\ pc' = "stop_on_order"
    /\ UNCHANGED << config, x_second, days, callback, call, feed, day_count, datetime, inited,
                    trading, pos, active_limit_orders, daily_results, snap, steps >>

\* cross_stop_order: strategy.on_order(order) for the synthesized order
StopPushOrder ==
    /\ pc = "stop_on_order" /\ cb = "none"
    /\ LET stop_order == stop_orders[Head(snap)]
           order == limit_orders[stop_order.vt_orderids[Len(stop_order.vt_orderids)]]
       IN  calls' = Append(calls, OnOrder(order))
    /\ cb' = "on_order"
    /\ pc' = "stop_pos"
    /\ UNCHANGED << config, x_second, days, callback, call, feed, day_count, datetime, inited,
                    trading, pos, limit_orders, active_limit_orders, stop_orders,
                    active_stop_orders, trades, daily_results, snap, steps >>

\* cross_stop_order: strategy.pos += pos_change; strategy.on_trade(trade)
StopPushTrade ==
    /\ pc = "stop_pos" /\ cb = "none"
    /\ LET stop_order == stop_orders[Head(snap)]
           k == stop_order.vt_orderids[Len(stop_order.vt_orderids)]
           trade == CHOOSE t \in Range(trades) : t.orderid = k
       IN  /\ pos' = pos + stop_pos_change(stop_order)
           /\ calls' = Append(calls, OnTrade(trade))
    /\ cb' = "on_trade"
    /\ snap' = Tail(snap)
    /\ pc' = "stop_loop"
    /\ UNCHANGED << config, x_second, days, callback, call, feed, day_count, datetime, inited,
                    trading, limit_orders, active_limit_orders, stop_orders,
                    active_stop_orders, trades, daily_results, steps >>

----
\* new_bar: which bar callback the x_second test selects ("none": no callback)
bar_callback(x) ==
    IF x = NoAttr THEN "on_bar"
    ELSE IF x < 60 THEN "on_second_bar"
    ELSE IF x = 60 THEN "on_bar"
    ELSE "none"

\* new_bar / new_tick: cross_stop_order has returned, hand the data point to the
\* strategy; new_bar reads strategy.x_second, whatever the strategy holds there
DataCallback ==
    /\ pc = "stop_loop" /\ cb = "none" /\ snap = << >>
    /\ \E x \in (IF mode = "BAR" THEN XSeconds ELSE {NoAttr}) :
        LET f == IF mode = "BAR" THEN bar_callback(x) ELSE "on_tick"
        IN  /\ x_second' = x
            /\ cb' = f
            /\ steps' = IF f = "none" THEN steps ELSE Append(steps, f)
    /\ pc' = "daily_close"
    /\ UNCHANGED << config, days, callback, call, feed, day_count, datetime, inited,
                    trading, books, daily_results, snap >>

\* DailyResult.__init__
DailyResult(date, close_price) ==
    [date |-> date, close_price |-> close_price, pre_close |-> 0, trades |-> << >>,
     trade_count |-> 0, start_pos |-> 0, end_pos |-> 0,
     turnover |-> 0, commission |-> 0, slippage |-> 0,
     trading_pnl |-> 0, holding_pnl |-> 0, total_pnl |-> 0, net_pnl |-> 0]

\* BacktestingEngine.update_daily_close
update_daily_close(price) ==
    LET d == DateOf(datetime)
        found == { i \in 1 .. Len(daily_results) : daily_results[i].date = d }
    IN  IF found # {}
        THEN [ i \in 1 .. Len(daily_results) |->
                 IF i \in found THEN [daily_results[i] EXCEPT !.close_price = price]
                                ELSE daily_results[i] ]
        ELSE Append(daily_results, DailyResult(d, price))

\* new_bar / new_tick: update_daily_close(bar.close_price / tick.last_price)
UpdateDailyClose ==
    /\ pc = "daily_close" /\ cb = "none"
    /\ daily_results' =
          update_daily_close(IF mode = "BAR" THEN data.close_price ELSE data.last_price)
    /\ steps' = Append(steps, "update_daily_close")
    /\ pc' = "run_loop"
    /\ UNCHANGED << config, x_second, days, callback, cb, call, feed, day_count, datetime,
                    inited, trading, books, snap >>

----
\* calculate_result: the trades of the ledger made on date d, in ledger order
DayTrades(ts, d) == SelectSeq(ts, LAMBDA t : DateOf(t.datetime) = d)

\* calculate_result: the first trade whose date has no daily result (KeyError at
\* self.daily_results[d]); Len(trades) + 1 when every trade has one
FirstUnbooked ==
    LET dates == { daily_results[i].date : i \in 1 .. Len(daily_results) }
        bad == { j \in 1 .. Len(trades) : DateOf(trades[j].datetime) \notin dates }
    IN  IF bad = {} THEN Len(trades) + 1
        ELSE CHOOSE j \in bad : \A k \in bad : j <= k

\* calculate_result: daily_results after add_trade of the first m trades
AddTrades(m) ==
    [ i \in 1 .. Len(daily_results) |->
        [daily_results[i] EXCEPT
            !.trades = @ \o DayTrades(SubSeq(trades, 1, m), daily_results[i].date)] ]

\* DailyResult.calculate_pnl: the amounts of the day's trades, accumulated
SumTrades(amounts) ==
    LET acc[i \in 0 .. Len(amounts)] == IF i = 0 THEN 0 ELSE acc[i - 1] + amounts[i]
    IN  acc[Len(amounts)]

\* DailyResult.calculate_pnl charging every trade the Fixed commission
daily_commission_fixed(t) == t.volume * rate

\* DailyResult.calculate_pnl: the commission of one trade
daily_commission(t) ==
    IF rate_type = "FIXED" THEN t.volume * rate
                           ELSE (t.volume * size * t.price) * rate

\* DailyResult.calculate_pnl for a normal (not inverse) contract
calculate_pnl(dr, pre_close, start_pos) ==
    LET t_turnover(t)   == t.volume * size * t.price
        t_pnl(t)        == PosChange(t) * (dr.close_price - t.price) * size
        t_commission(t) == daily_commission(t)
        t_slippage(t)   == t.volume * size * slippage
        each(F(_))      == [ i \in 1 .. Len(dr.trades) |-> F(dr.trades[i]) ]
        pre             == IF pre_close # 0 THEN pre_close ELSE 1
        holding_pnl     == start_pos * (dr.close_price - pre) * size
        trading_pnl     == dr.trading_pnl + SumTrades(each(t_pnl))
        commission      == dr.commission + SumTrades(each(t_commission))
        slipped         == dr.slippage + SumTrades(each(t_slippage))
    IN  [dr EXCEPT
            !.pre_close = pre,
            !.start_pos = start_pos,
            !.end_pos = start_pos + SumPosChange(dr.trades),
            !.holding_pnl = holding_pnl,
            !.trade_count = Len(dr.trades),
            !.turnover = @ + SumTrades(each(t_turnover)),
            !.trading_pnl = trading_pnl,
            !.commission = commission,
            !.slippage = slipped,
            !.total_pnl = trading_pnl + holding_pnl,
            !.net_pnl = trading_pnl + holding_pnl - commission - slipped]

\* calculate_result that never moves pre_close on from its initial 0
CalculatePnl_stale_pre_close(booked) ==
    LET end_pos[i \in 0 .. Len(booked)] ==
            IF i = 0 THEN 0 ELSE end_pos[i - 1] + SumPosChange(booked[i].trades)
    IN  [ i \in 1 .. Len(booked) |-> calculate_pnl(booked[i], 0, end_pos[i - 1]) ]

\* calculate_result: calculate_pnl day by day, pre_close and start_pos carried over
CalculatePnl(booked) ==
    LET end_pos[i \in 0 .. Len(booked)] ==
            IF i = 0 THEN 0 ELSE end_pos[i - 1] + SumPosChange(booked[i].trades)
    IN  [ i \in 1 .. Len(booked) |->
            calculate_pnl(booked[i],
                          IF i = 1 THEN 0 ELSE booked[i - 1].close_price,
                          end_pos[i - 1]) ]

\* calculate_result without the early return on an empty trade ledger
CalculateResult_no_early_return ==
    /\ pc \in {"done", "aborted"} /\ cb = "none"
    /\ IF FirstUnbooked <= Len(trades)
       THEN /\ pc' = "raised"
            /\ daily_results' = AddTrades(FirstUnbooked - 1)
            /\ UNCHANGED daily_df
       ELSE /\ pc' = "calculated"
            /\ daily_results' = CalculatePnl(AddTrades(Len(trades)))
            /\ daily_df' = Frame(daily_results')
    /\ UNCHANGED << mode, start, end_, history_data, load_report, optimization, costs,
                    reports, loading, apps, x_second, days, callback, cb, call, feed,
                    day_count, datetime,
                    inited, trading, books, snap, steps >>

\* BacktestingEngine.calculate_result, called once run_backtesting has returned
CalculateResult ==
    /\ pc \in {"done", "aborted"} /\ cb = "none"
    /\ IF trades = << >>
       THEN /\ pc' = "calculated"
            /\ UNCHANGED << daily_results, daily_df >>
       ELSE IF FirstUnbooked <= Len(trades)
       THEN /\ pc' = "raised"
            /\ daily_results' = AddTrades(FirstUnbooked - 1)
            /\ UNCHANGED daily_df
       ELSE /\ pc' = "calculated"
            /\ daily_results' = CalculatePnl(AddTrades(Len(trades)))
            /\ daily_df' = Frame(daily_results')
    /\ UNCHANGED << mode, start, end_, history_data, load_report, optimization, costs,
                    reports, loading, apps, x_second, days, callback, cb, call, feed,
                    day_count, datetime,
                    inited, trading, books, snap, steps >>

----
StrategyAction ==
    \/ Buy \/ Sell \/ Short \/ Cover
    \/ CancelOrder \/ CancelAll
    \/ LoadBar \/ LoadTick
    \/ Return \/ Raise \/ RaiseAttributeError

EngineAction ==
    \/ RunBacktesting \/ WarmUp \/ WarmUpEnd \/ Start \/ SetTrading
    \/ RunFirst \/ RunNext \/ RunEnd
    \/ LimitPending \/ LimitNotPending \/ LimitNoCross \/ LimitCross
    \/ LimitPopKeyError \/ LimitTrade \/ CrossStopOrder
    \/ StopNoCross \/ StopCross \/ StopPushOrder \/ StopPushTrade
    \/ DataCallback \/ UpdateDailyClose
    \/ CalculateResult

Next == StrategyAction \/ EngineAction

Spec == Init /\ [][Next]_vars

----
\* Replay of a history that load_data has stored, by a strategy that only watches:
\* set_parameters and load_data on an idle engine, then run_backtesting over
\* history_data.

\* the engine's state outside the window, the stored history and the load report
engine_but_loader ==
    << mode, daily_df, x_second, days, callback, pc, cb, call, feed, day_count,
       datetime, inited, trading, books, daily_results, snap, steps, costs, reports,
       interval >>
engine == << engine_but_loader, loader >>

Starts == {1, 2, Now}
Ends   == {NoDate, 1, Now}

\* chronological histories of at most MaxData data points with dates in S
Histories(S) ==
    { h \in UNION { [1 .. k -> S] : k \in 0 .. MaxData } :
        \A i \in 1 .. Len(h) : \A j \in i .. Len(h) : h[i] <= h[j] }

InitReplay ==
    /\ EngineInit
    /\ AppsIdle
    /\ interval = "1m"
    /\ start = NoDate /\ end_ = NoDate
    /\ history_data = << >>
    /\ load_report = "none"
    /\ OptimizationIdle

\* BacktestingEngine.set_parameters: the window
SetParameters ==
    /\ pc = "idle"
    /\ \E s \in Starts, e \in Ends : start' = s /\ end_' = e
    /\ UNCHANGED << engine, apps, history_data, load_report, optimization >>

\* BacktestingEngine.load_data
LoadData ==
    /\ pc = "idle" /\ start # NoDate
    /\ end_' = IF end_ = NoDate THEN Now ELSE end_
    /\ IF start >= end_'
       THEN /\ load_report' = "invalid"
            /\ UNCHANGED history_data
       ELSE /\ load_report' = "loaded"
            /\ history_data' \in Histories({ d \in Dates : start <= d /\ d <= end_' })
    /\ UNCHANGED << engine, apps, start, optimization >>

\* CtaTemplate.load_bar(0, ...) called from on_init
LoadBarZero == load_bar(0)

\* the loops of run_backtesting over the stored history
ReplayWarmUp ==
    /\ n < Len(history_data)
    /\ WarmUp
    /\ data'.dt = history_data[n + 1]
ReplayWarmUpEnd ==
    /\ n = Len(history_data)
    /\ WarmUpEnd
ReplayRunNext ==
    /\ n < Len(history_data)
    /\ RunNext
    /\ data'.dt = history_data[n + 1]
ReplayRunEnd ==
    /\ n = Len(history_data)
    /\ RunEnd

NextReplay ==
    \/ SetParameters \/ LoadData
    \/ RunBacktesting \/ LoadBar \/ LoadBarZero \/ Return
    \/ ReplayWarmUp \/ ReplayWarmUpEnd \/ Start \/ SetTrading
    \/ RunFirst \/ ReplayRunNext \/ ReplayRunEnd
    \/ CrossStopOrder \/ DataCallback \/ UpdateDailyClose
    \/ CalculateResult

SpecReplay == InitReplay /\ [][NextReplay]_vars

----
\* Properties

DataCallbacks == {"on_bar", "on_second_bar", "on_tick"}

BooksEmpty ==
    /\ limit_orders = << >> /\ active_limit_orders = << >>
    /\ stop_orders = << >> /\ active_stop_orders = << >>
    /\ trades = << >>

\* C1: every data point of the run phase gets, in this order and once each, limit
\* crossing, stop crossing, the strategy's data callback and update_daily_close, and
\* the data callback sees strategy.pos with every fill of the data point applied.
C1_DataPointSequence ==
    /\ (pc = "run_loop" /\ steps # << >>) =>
          \E f \in DataCallbacks :
              steps = << "cross_limit_order", "cross_stop_order", f, "update_daily_close" >>
    /\ cb \in DataCallbacks => pos = SumPosChange(trades)

\* C2: in cross_limit_order an active limit order is filled iff it is Long with
\* price >= long_cross > 0 or Short with price <= short_cross and short_cross > 0
\* (bar.low / bar.high in Bar mode, ask_1 / bid_1 in Tick mode); a filled order has
\* traded = volume, is AllTraded and leaves the active book; an order that does not
\* cross stays in the active book unchanged.
C2_long_cross  == IF mode = "BAR" THEN data.low_price  ELSE data.ask_price_1
C2_short_cross == IF mode = "BAR" THEN data.high_price ELSE data.bid_price_1
C2_crosses(o) ==
    \/ o.direction = "LONG"  /\ o.price >= C2_long_cross  /\ C2_long_cross > 0
    \/ o.direction = "SHORT" /\ o.price <= C2_short_cross /\ C2_short_cross > 0
C2_LimitCrossing ==
    [][ /\ ( /\ pc = "limit_check" /\ cb = "none"
             /\ Head(snap) \in Range(active_limit_orders) ) =>
                LET k == Head(snap)
                    o == limit_orders[k]
                IN  IF C2_crosses(o)
                    THEN limit_orders'[k] =
                            [o EXCEPT !.traded = o.volume, !.status = "ALLTRADED"]
                    ELSE /\ limit_orders'[k] = o
                         /\ k \in Range(active_limit_orders')
        /\ \A k \in 1 .. Len(limit_orders) :
              ( limit_orders[k].status # "ALLTRADED"
                /\ limit_orders'[k].status = "ALLTRADED" ) =>
                    /\ pc = "limit_check" /\ k = Head(snap)
                    /\ C2_crosses(limit_orders[k])
        /\ ( /\ pc = "limit_pop" /\ cb = "none"
             /\ Head(snap) \in Range(active_limit_orders) ) =>
                /\ Head(snap) \notin Range(active_limit_orders')
                /\ limit_orders'[Head(snap)] = limit_orders[Head(snap)]
      ]_vars

C2_Witness ==
    \E k \in 1 .. Len(limit_orders) :
        /\ k \notin Synthesized
        /\ limit_orders[k].status = "ALLTRADED"
        /\ limit_orders[k].volume > 0
        /\ limit_orders[k].traded = limit_orders[k].volume
        /\ k \notin Range(active_limit_orders)
        /\ \E t \in Range(trades) : t.orderid = k

\* C3: in cross_stop_order an active stop order triggers iff it is Long with
\* price <= long_cross or Short with price >= short_cross (bar.high / bar.low in
\* Bar mode, last_price in Tick mode); a triggered stop becomes Triggered, leaves the
\* active stop book and produces exactly one new AllTraded order with a fresh id,
\* appended to its triggered order ids, and exactly one trade of its full volume;
\* a stop that does not trigger stays in the active stop book unchanged.
C3_long_cross  == IF mode = "BAR" THEN data.high_price ELSE data.last_price
C3_short_cross == IF mode = "BAR" THEN data.low_price  ELSE data.last_price
C3_triggers(so) ==
    \/ so.direction = "LONG"  /\ so.price <= C3_long_cross
    \/ so.direction = "SHORT" /\ so.price >= C3_short_cross
C3_StopCrossing ==
    [][ /\ ( /\ pc = "stop_loop" /\ cb = "none" /\ snap # << >>
             /\ Head(snap) \in Range(active_stop_orders) ) =>
                LET k  == Head(snap)
                    so == stop_orders[k]
                    id == Len(limit_orders) + 1
                IN  IF C3_triggers(so)
                    THEN /\ stop_orders'[k] =
                               [so EXCEPT !.status = "TRIGGERED",
                                          !.vt_orderids = Append(@, id)]
                         /\ k \notin Range(active_stop_orders')
                         /\ Len(limit_orders') = id
                         /\ limit_orders'[id].orderid = id
                         /\ limit_orders'[id].status = "ALLTRADED"
                         /\ limit_orders'[id].volume = so.volume
                         /\ Len(trades') = Len(trades) + 1
                         /\ trades'[Len(trades')].orderid = id
                         /\ trades'[Len(trades')].volume = so.volume
                    ELSE /\ stop_orders'[k] = so
                         /\ k \in Range(active_stop_orders')
                         /\ UNCHANGED << limit_orders, trades >>
        /\ \A k \in 1 .. Len(stop_orders) :
              ( stop_orders[k].status # "TRIGGERED"
                /\ stop_orders'[k].status = "TRIGGERED" ) =>
                    /\ pc = "stop_loop" /\ k = Head(snap)
                    /\ C3_triggers(stop_orders[k])
      ]_vars

C3_Witness ==
    \E k \in 1 .. Len(stop_orders) :
        /\ stop_orders[k].status = "TRIGGERED"
        /\ stop_orders[k].volume > 0
        /\ k \notin Range(active_stop_orders)
        /\ Len(stop_orders[k].vt_orderids) = 1
        /\ \E t \in Range(trades) :
              /\ t.orderid = stop_orders[k].vt_orderids[1]
              /\ t.volume = stop_orders[k].volume

\* C4: every trade respects the fill-price bounds of its order: a Long limit fill is
\* at min(order.price, best) <= order.price, a Short limit fill at
\* max(order.price, best) >= order.price, a Long stop fill at
\* max(stop.price, best) >= stop.price, a Short stop fill at
\* min(stop.price, best) <= stop.price; best is bar.open in Bar mode (ask_1 / bid_1
\* for limit orders and last_price for stop orders in Tick mode).
C4_limit_best(direction) ==
    IF mode = "BAR" THEN data.open_price
    ELSE IF direction = "LONG" THEN data.ask_price_1 ELSE data.bid_price_1
C4_stop_best == IF mode = "BAR" THEN data.open_price ELSE data.last_price
C4_FillPriceBounds ==
    [][ /\ Len(trades') >= Len(trades)
        /\ \A i \in 1 .. Len(trades) : trades'[i] = trades[i]
        /\ Len(trades') > Len(trades) =>
              LET t == trades'[Len(trades')]
                  o == limit_orders'[t.orderid]
              IN  /\ Len(trades') = Len(trades) + 1
                  /\ t.direction = o.direction
                  /\ IF t.orderid \in Synthesized'
                     THEN IF t.direction = "LONG"
                          THEN /\ t.price = Max(o.price, C4_stop_best)
                               /\ t.price >= o.price
                          ELSE /\ t.price = Min(o.price, C4_stop_best)
                               /\ t.price <= o.price
                     ELSE IF t.direction = "LONG"
                          THEN /\ t.price = Min(o.price, C4_limit_best("LONG"))
                               /\ t.price <= o.price
                          ELSE /\ t.price = Max(o.price, C4_limit_best("SHORT"))
                               /\ t.price >= o.price
      ]_vars

C4_Witness ==
    \E t \in Range(trades) :
        /\ t.orderid \notin Synthesized
        /\ t.direction = "LONG"
        /\ t.price < limit_orders[t.orderid].price

\* C5: conservation of position: after every completed data point and at the end of
\* the run strategy.pos is the sum over the trade ledger of +volume for Long and
\* -volume for Short trades, whatever the strategy sends or cancels.  The engine
\* step is excepted that leads into the span of cross_stop_order between recording
\* the trade and "pos += pos_change", and a run the strategy itself ends by raising
\* inside that span; a run ended by the KeyError of cross_limit_order is not.  What
\* follows the run (calculate_result) changes neither pos nor the trade ledger.
C5_InStopSpan == pc \in {"stop_on_order", "stop_pos"}
C6_Chain ==
    { << "SUBMITTING", "NOTTRADED" >>, << "NOTTRADED", "ALLTRADED" >>,
      << "NOTTRADED", "CANCELLED" >> }
C6_EndState ==
    \A k \in (1 .. Len(limit_orders)) \ Synthesized :
        \/ /\ limit_orders[k].status = "ALLTRADED"
           /\ k \notin Range(active_limit_orders)
           /\ \E t \in Range(trades) : t.orderid = k
        \/ /\ limit_orders[k].status = "CANCELLED"
           /\ k \notin Range(active_limit_orders)
        \/ /\ limit_orders[k].status \in {"SUBMITTING", "NOTTRADED"}
           /\ k \in Range(active_limit_orders)
C6_BookDiscipline ==
    [][ /\ \A k \in (1 .. Len(limit_orders)) \ Synthesized :
              \/ limit_orders'[k].status = limit_orders[k].status
              \/ << limit_orders[k].status, limit_orders'[k].status >> \in C6_Chain
        /\ pc' \in {"done", "aborted"} => C6_EndState'
      ]_vars

\* C7: every order in limit_orders, the orders synthesized by triggered stop orders
\* included, has 0 <= traded <= volume, and traded = volume when AllTraded.
C7_OrderInvariant ==
    \A k \in 1 .. Len(limit_orders) :
        /\ 0 <= limit_orders[k].traded
        /\ limit_orders[k].traded <= limit_orders[k].volume
        /\ limit_orders[k].status = "ALLTRADED" =>
              limit_orders[k].traded = limit_orders[k].volume

\* C8: every trade in the ledger, from limit crossing or stop triggering, in Bar or
\* Tick mode, has price > 0 and volume > 0.
C8_TradePositive ==
    \A t \in Range(trades) : t.price > 0 /\ t.volume > 0

\* C9: cancel_order dispatches on the stop-order prefix; cancelling an id that is
\* not in the corresponding active book changes nothing and notifies nobody;
\* cancelling an active id removes it from the active book, sets it Cancelled and
\* notifies the strategy; over any sequence of cancel_order / cancel_all calls the
\* Cancelled status of an order is pushed exactly once.
C9_Pushed(f, k) ==
    Cardinality({ i \in 1 .. Len(calls) :
                    calls[i] = [cb |-> f, id |-> k, status |-> "CANCELLED"] })
C9_ExactlyOnce ==
    /\ \A k \in 1 .. Len(limit_orders) :
          /\ C9_Pushed("on_order", k) <= 1
          /\ limit_orders[k].status = "CANCELLED" => C9_Pushed("on_order", k) = 1
    /\ \A k \in 1 .. Len(stop_orders) :
          /\ C9_Pushed("on_stop_order", k) <= 1
          /\ stop_orders[k].status = "CANCELLED" => C9_Pushed("on_stop_order", k) = 1
C9_Cancel ==
    [][ /\ (call'.op = "cancel_order" /\ call' # call /\ trading) =>
              LET k == call'.arg.seq
              IN  /\ UNCHANGED << trades, pos, daily_results, datetime, pc, cb >>
                  /\ IF call'.arg.prefix = STOPORDER_PREFIX
                     THEN /\ UNCHANGED << limit_orders, active_limit_orders >>
                          /\ IF k \in Range(active_stop_orders)
                             THEN /\ active_stop_orders' = Remove(active_stop_orders, k)
                                  /\ stop_orders' =
                                        [stop_orders EXCEPT ![k].status = "CANCELLED"]
                                  /\ calls' = Append(calls,
                                        [cb |-> "on_stop_order", id |-> k,
                                         status |-> "CANCELLED"])
                             ELSE UNCHANGED << stop_orders, active_stop_orders, calls >>
                     ELSE /\ UNCHANGED << stop_orders, active_stop_orders >>
                          /\ IF k \in Range(active_limit_orders)
                             THEN /\ active_limit_orders' = Remove(active_limit_orders, k)
                                  /\ limit_orders' =
                                        [limit_orders EXCEPT ![k].status = "CANCELLED"]
                                  /\ calls' = Append(calls,
                                        [cb |-> "on_order", id |-> k,
                                         status |-> "CANCELLED"])
                             ELSE UNCHANGED << limit_orders, active_limit_orders, calls >>
        /\ (call'.op = "cancel_all" /\ call' # call /\ trading) =>
              /\ UNCHANGED << trades, pos, daily_results, datetime, pc, cb >>
              /\ active_limit_orders' = << >> /\ active_stop_orders' = << >>
              /\ \A k \in Range(active_limit_orders) :
                    limit_orders'[k].status = "CANCELLED"
              /\ \A k \in Range(active_stop_orders) :
                    stop_orders'[k].status = "CANCELLED"
              /\ Len(calls') = Len(calls) + Len(active_limit_orders)
                                          + Len(active_stop_orders)
        /\ C9_ExactlyOnce'
      ]_vars

C9_Witness ==
    /\ call.op = "cancel_order"
    /\ call.arg.prefix = gateway_name
    /\ call.arg.seq <= Len(limit_orders)
    /\ limit_orders[call.arg.seq].status = "CANCELLED"
    /\ C9_Pushed("on_order", call.arg.seq) = 1

\* C10: while strategy.trading is false (on_init, the warm-up, on_start)
\* buy/sell/short/cover return the empty list and cancel_order / cancel_all do
\* nothing: no order, no counter, no book or ledger changes and no crossing is
\* performed, so both books and the ledger are empty when the run phase begins.
C10_NotTrading ==
    /\ ~trading =>
          /\ BooksEmpty
          /\ limit_order_count = 0 /\ stop_order_count = 0 /\ trade_count = 0
          /\ pos = 0 /\ calls = << >> /\ steps = << >> /\ daily_results = << >>
          /\ call.op = "send_order" => call.ret = << >>
    /\ pc = "run_first" => BooksEmpty

C10_Witness ==
    /\ ~trading
    /\ cb = "warm_up"
    /\ call = [op |-> "send_order", ret |-> << >>]

\* ---------------------------------------------------------------------------
\* Parameter optimization: OptimizationSetting, run_optimization,
\* run_ga_optimization and the cached GA evaluation
\* ---------------------------------------------------------------------------

MaxParam  == 2      \* parameter values range over 0 .. MaxParam
MaxStep   == 2      \* steps range over 0 .. MaxStep
MaxTarget == 2      \* target values range over 0 .. MaxTarget
MaxGrid   == 3      \* run_optimization is run on grids of at most MaxGrid settings
MaxGaGrid == 2      \* run_ga_optimization on grids of at most MaxGaGrid settings

NoArg        == -1  \* Python's None, the default of end and step
ParamNames   == {"a", "b"}
TargetNames  == {"sharpe_ratio", "total_return"}
ParamStarts  == 0 .. MaxParam
ParamEnds    == {NoArg} \cup (0 .. MaxParam)
ParamSteps   == {NoArg} \cup (0 .. MaxStep)
TargetValues == 0 .. MaxTarget

window == << start, end_, history_data, load_report >>

\* Python's "not x" for a number or None
Falsy(x) == x = NoArg \/ x = 0

\* the while loop of add_parameter
RECURSIVE value_list(_, _, _)
value_list(value, end, step) ==
    IF value <= end THEN << value >> \o value_list(value + step, end, step) ELSE << >>

\* self.params[name] = values on a dict that keeps insertion order
dict_set(ps, name, values) ==
    IF \E i \in 1 .. Len(ps) : ps[i].name = name
    THEN [i \in 1 .. Len(ps) |->
            IF ps[i].name = name THEN [name |-> name, values |-> values] ELSE ps[i]]
    ELSE Append(ps, [name |-> name, values |-> values])

\* OptimizationSetting.add_parameter on params ps: the params afterwards and how the
\* call ended ("stored", "rejected" after the printed message, or the TypeError of
\* comparing a number with None)
add_parameter(ps, name, first, end, step) ==
    IF Falsy(end) /\ Falsy(step)
    THEN [params |-> dict_set(ps, name, << first >>), outcome |-> "stored"]
    ELSE IF end = NoArg THEN [params |-> ps, outcome |-> "TypeError"]
    ELSE IF first >= end THEN [params |-> ps, outcome |-> "rejected"]
    ELSE IF step = NoArg THEN [params |-> ps, outcome |-> "TypeError"]
    ELSE IF step <= 0 THEN [params |-> ps, outcome |-> "rejected"]
    ELSE [params |-> dict_set(ps, name, value_list(first, end, step)),
          outcome |-> "stored"]

\* itertools.product(*lists): the first list varies slowest
RECURSIVE product(_)
product(lists) ==
    IF lists = << >> THEN << << >> >>
    ELSE LET rest == product(Tail(lists))
             head == Head(lists)
         IN  [k \in 1 .. Len(head) * Len(rest) |->
                << head[((k - 1) \div Len(rest)) + 1] >> \o rest[((k - 1) % Len(rest)) + 1]]

\* OptimizationSetting.generate_setting on params ps; a setting (a dict) is the
\* sequence of its items in key order
generate_setting(ps) ==
    LET products == product([i \in 1 .. Len(ps) |-> ps[i].values])
    IN  [k \in 1 .. Len(products) |->
            [i \in 1 .. Len(ps) |-> [name |-> ps[i].name, value |-> products[k][i]]]]

\* OptimizationSetting.generate_setting_ga: each dict as the list of its item tuples
generate_setting_ga(ps) ==
    LET settings == generate_setting(ps)
    IN  [k \in 1 .. Len(settings) |-> settings[k]]

AddParameter ==
    /\ opt_pc = "idle"
    /\ \E name \in ParamNames, first \in ParamStarts, end \in ParamEnds, step \in ParamSteps :
        LET r == add_parameter(params, name, first, end, step)
        IN  /\ params' = r.params
            /\ opt_call' = [op |-> "add_parameter", name |-> name, start |-> first,
                            end |-> end, step |-> step, outcome |-> r.outcome]
    /\ UNCHANGED << engine, apps, window, target_name, opt_pc, tasks, task_values, finished,
                    result_values, ga_target_name, cache, evaluated, ga_last >>

\* OptimizationSetting.set_target
SetTarget ==
    /\ opt_pc = "idle"
    /\ \E name \in {""} \cup TargetNames : target_name' = name
    /\ UNCHANGED << engine, apps, window, params, opt_call, opt_pc, tasks, task_values, finished,
                    result_values, ga_target_name, cache, evaluated, ga_last >>

NextSetting == AddParameter \/ SetTarget

\* An OptimizationSetting filled by add_parameter and set_target calls
SpecSetting == Init /\ [][NextSetting]_vars

\* what optimize returns: (str(setting), statistics[target_name], statistics); the
\* setting stands for its string, the statistics map is kept at the target's key
Triple(setting, name, target_value) ==
    [setting |-> setting, target_value |-> target_value,
     statistics |-> [k \in {name} |-> target_value]]

\* a stable sort without the reverse flag
RECURSIVE sort_ascending(_)
sort_ascending(s) ==
    IF s = << >> THEN << >>
    ELSE LET sorted == sort_ascending(SubSeq(s, 1, Len(s) - 1))
             x == s[Len(s)]
             k == Cardinality({i \in 1 .. Len(sorted) :
                                 sorted[i].target_value <= x.target_value})
         IN  SubSeq(sorted, 1, k) \o << x >> \o SubSeq(sorted, k + 1, Len(sorted))

\* list.sort(reverse=True, key=lambda result: result[1]): a stable sort, equal keys
\* keep the order they had
RECURSIVE sort_reverse(_)
sort_reverse(s) ==
    IF s = << >> THEN << >>
    ELSE LET sorted == sort_reverse(SubSeq(s, 1, Len(s) - 1))
             x == s[Len(s)]
             k == Cardinality({i \in 1 .. Len(sorted) :
                                 sorted[i].target_value >= x.target_value})
         IN  SubSeq(sorted, 1, k) \o << x >> \o SubSeq(sorted, k + 1, Len(sorted))

\* run_optimization up to pool.close(): the two early returns, then one task per
\* setting, submitted in grid order
RunOptimization ==
    /\ opt_pc = "idle"
    /\ LET settings == generate_setting(params)
       IN  /\ Len(settings) <= MaxGrid
           /\ IF settings = << >> \/ target_name = ""
              THEN /\ tasks' = << >>
                   /\ result_values' = None
                   /\ opt_pc' = "idle"
              ELSE /\ tasks' = settings
                   /\ result_values' = NoResult
                   /\ opt_pc' = "pool"
    /\ task_values' = << >>
    /\ finished' = << >>
    /\ UNCHANGED << engine, apps, window, params, target_name, opt_call, ga_target_name, cache,
                    evaluated, ga_last >>

\* a worker finishes optimize for one submitted task; the backtest's statistic is
\* whatever the strategy, the data and the setting make it
WorkerFinish ==
    /\ opt_pc = "pool"
    /\ \E i \in (1 .. Len(tasks)) \ DOMAIN task_values, v \in TargetValues :
        /\ task_values' = task_values @@ (i :> v)
        /\ finished' = Append(finished, i)
    /\ UNCHANGED << engine, apps, window, params, target_name, opt_call, opt_pc, tasks,
                    result_values, ga_target_name, cache, evaluated, ga_last >>

\* the results in the order the workers finished
ResultValuesAsCompleted ==
    [k \in 1 .. Len(finished) |->
        Triple(tasks[finished[k]], target_name, task_values[finished[k]])]

\* [result.get() for result in results]: the results in submission order
ResultValues ==
    [i \in 1 .. Len(tasks) |-> Triple(tasks[i], target_name, task_values[i])]

\* run_optimization from pool.join() on: join returns when every task has finished;
\* tasks, task_values and finished stay as this call left them until the next call
Collect ==
    /\ opt_pc = "pool"
    /\ DOMAIN task_values = 1 .. Len(tasks)
    /\ result_values' = [kind |-> "list", list |-> sort_reverse(ResultValues)]
    /\ opt_pc' = "idle"
    /\ UNCHANGED << engine, apps, window, params, target_name, opt_call, tasks, task_values,
                    finished, ga_target_name, cache, evaluated, ga_last >>

\* run_ga_optimization up to the start of eaMuPlusLambda: the two early returns, then
\* the module globals are set from this search's configuration
RunGaOptimization ==
    /\ opt_pc = "idle"
    /\ LET settings == generate_setting_ga(params)
       IN  /\ Len(settings) <= MaxGaGrid
           /\ IF settings = << >> \/ target_name = ""
              THEN /\ tasks' = << >>
                   /\ result_values' = None
                   /\ opt_pc' = "idle"
                   /\ UNCHANGED ga_target_name
              ELSE /\ tasks' = settings
                   /\ result_values' = NoResult
                   /\ opt_pc' = "ga"
                   /\ ga_target_name' = target_name
    /\ task_values' = << >>
    /\ finished' = << >>
    /\ evaluated' = {}
    /\ UNCHANGED << engine, apps, window, params, target_name, opt_call, cache, ga_last >>

\* ga_optimize(parameter_values) -> _ga_optimize(tuple(parameter_values)): the
\* lru_cache is keyed by parameter_values alone. A miss runs optimize with the module
\* globals; a hit returns the stored value. uncached is what optimize would return
\* now: the stored value when it was computed under the same globals, any value
\* otherwise.
ga_optimize(key) ==
    IF \E e \in cache : e.key = key
    THEN LET e == CHOOSE e \in cache : e.key = key
         IN  /\ cache' = cache
             /\ \E u \in (IF e.under = ga_target_name THEN {e.value} ELSE TargetValues) :
                    ga_last' = [op |-> "ga_optimize", hit |-> TRUE,
                                returned |-> e.value, uncached |-> u]
    ELSE \E v \in TargetValues :
            /\ cache' = cache \cup {[key |-> key, value |-> v, under |-> ga_target_name]}
            /\ ga_last' = [op |-> "ga_optimize", hit |-> FALSE,
                           returned |-> v, uncached |-> v]

\* eaMuPlusLambda evaluates an individual; individuals are drawn from settings and
\* recombined position by position, so each is a point of the grid
GaEvaluate ==
    /\ opt_pc = "ga"
    /\ \E i \in 1 .. Len(tasks) :
        /\ ga_optimize(tasks[i])
        /\ evaluated' = evaluated \cup {i}
    /\ UNCHANGED << engine, apps, window, params, target_name, opt_call, opt_pc, tasks,
                    task_values, finished, result_values, ga_target_name >>

\* the cached fitness of an evaluated individual
Fitness(i) == (CHOOSE e \in cache : e.key = tasks[i]).value

\* the hall of fame (a ParetoFront of one objective): the evaluated individuals of
\* the greatest fitness, listed here in grid order
HallOfFame ==
    LET best == {i \in evaluated : \A j \in evaluated : Fitness(i) >= Fitness(j)}
        F[k \in 0 .. Len(tasks)] ==
            IF k = 0 THEN << >>
            ELSE IF k \in best THEN Append(F[k - 1], k) ELSE F[k - 1]
    IN  F[Len(tasks)]

\* run_ga_optimization after eaMuPlusLambda: one (setting, target_value, {}) per
\* member of the hall of fame, the value read through ga_optimize (a cache hit)
GaReturn ==
    /\ opt_pc = "ga"
    /\ evaluated # {}
    /\ result_values' =
        [kind |-> "ga_list",
         list |-> [k \in 1 .. Len(HallOfFame) |->
                     [setting |-> tasks[HallOfFame[k]],
                      target_value |-> Fitness(HallOfFame[k]),
                      statistics |-> << >>]]]
    /\ opt_pc' = "idle"
    /\ tasks' = << >> /\ evaluated' = {}
    /\ UNCHANGED << engine, apps, window, params, target_name, opt_call, task_values, finished,
                    ga_target_name, cache, ga_last >>

\* the params that one add_parameter call leaves in a new OptimizationSetting (the
\* empty params when the call is rejected)
ParamsUniverse ==
    { add_parameter(<< >>, name, first, end, step).params :
        name \in ParamNames, first \in ParamStarts, end \in ParamEnds, step \in ParamSteps }

\* An engine and an OptimizationSetting as the caller built them, before the first
\* optimization of the process
InitOptimization ==
    /\ EngineInit
    /\ AppsIdle
    /\ interval = "1m"
    /\ mode = "BAR"
    /\ start = NoDate /\ end_ = NoDate
    /\ history_data = Provider
    /\ load_report = "none"
    /\ params \in ParamsUniverse
    /\ target_name \in {""} \cup TargetNames
    /\ opt_call = NoCall_
    /\ opt_pc = "idle"
    /\ tasks = << >> /\ task_values = << >> /\ finished = << >>
    /\ result_values = NoResult
    /\ ga_target_name = ""
    /\ cache = {}
    /\ evaluated = {}
    /\ ga_last = NoCall_

NextOptimization ==
    \/ SetTarget
    \/ RunOptimization
    \/ WorkerFinish
    \/ Collect
    \/ RunGaOptimization
    \/ GaEvaluate
    \/ GaReturn

\* Grid and genetic optimizations of one process, in any sequence
SpecOptimization == InitOptimization /\ [][NextOptimization]_vars


\* C12: lifecycle of a run: on_init is invoked before any warm-up callback; on_start
\* is invoked once, after the last warm-up callback and before the first run-phase
\* data point, with inited = true and trading = true, so that an order submitted
\* inside on_start is accepted into the book.
C12_Lifecycle ==
    [][ /\ cb' = "on_init" => (n' = 0 /\ ~inited' /\ ~trading')
        /\ cb' = "warm_up" => (~inited' /\ ~trading' /\ steps' = << >>)
        /\ (cb # "on_start" /\ cb' = "on_start") => pc = "start"
        /\ cb' = "on_start" => (inited' /\ trading' /\ steps' = << >>)
        /\ (cb = "on_start" /\ call' # call /\ call'.op = "send_order") =>
              call'.ret # << >>
      ]_vars

\* C13: an exception raised by a strategy callback (warm-up callback, on_bar,
\* on_second_bar, on_tick, on_order, on_trade, on_stop_order), whatever its type,
\* terminates run_backtesting: no later data point is processed and no further
\* strategy callback is invoked in that run.
C13_Raises ==
    /\ cb \notin {"none", "on_init", "on_start"}
    /\ call' # call /\ call'.op = "raise"
C13_ExceptionTerminates ==
    [][ /\ C13_Raises => (pc' = "aborted" /\ cb' = "none")
        /\ pc = "aborted" =>
              (cb' = "none" /\ n' = n /\ steps' = steps /\ calls' = calls)
      ]_vars

\* C14: with an empty history run_backtesting completes normally (on_init, then
\* on_start, no data callback, no crossing), the trade ledger, both books and the
\* daily ledger stay empty, and calculate_result returns no frame and changes no
\* engine state.
C14_EmptyHistory ==
    [][ (n' = 0 /\ exhausted') =>
            /\ BooksEmpty' /\ pos' = 0 /\ calls' = << >>
            /\ daily_results' = << >> /\ daily_df' = NoFrame
            /\ steps' = << >> /\ datetime' = NoDate
            /\ cb' \in {"none", "on_start"}
            /\ pc' # "aborted"
            /\ pc' = "calculated" =>
                  UNCHANGED << config, x_second, days, callback, cb, call, feed,
                               day_count, datetime, inited, trading, books,
                               daily_results, snap, steps >>
      ]_vars

C14_Witness ==
    /\ pc = "calculated"
    /\ n = 0 /\ exhausted
    /\ inited /\ trading
    /\ daily_df = NoFrame

\* C11: run_backtesting splits the chronological history at the first data point
\* whose calendar date is the (days+1)-th distinct date: every data point before the
\* split goes to the warm-up callback only, every data point from the split on to
\* the run phase only, none to both or to neither; with days = 0 the warm-up
\* callback receives nothing, and a history shorter than the warm-up horizon gives
\* an empty run phase.
C11_DistinctDates(i) == Cardinality({ DateOf(history_data[j]) : j \in 1 .. i })
C11_Split ==
    LET c == { i \in 1 .. Len(history_data) : C11_DistinctDates(i) = days + 1 }
    IN  IF c = {} THEN Len(history_data) + 1
        ELSE CHOOSE i \in c : \A k \in c : i <= k
C11_HistorySplit ==
    [][ /\ (pc = "warm_loop" /\ cb = "none" /\ cb' = "warm_up") => n' < C11_Split'
        /\ (pc \in {"run_first", "run_loop"} /\ pc' = "limit_loop") =>
              /\ n' >= C11_Split'
              /\ (pc = "run_first" => n' = C11_Split')
        /\ pc' = "done" => n' = Len(history_data')
      ]_vars

\* C16: when the configured window is invalid (start >= end) load_data reports the
\* error and calls no loader, and a following run_backtesting on that engine replays
\* no data point: the engine holds no history, neither new nor left over from an
\* earlier load.
C16_InvalidWindow ==
    load_report = "invalid" =>
        /\ history_data = << >>
        /\ n = 0 /\ steps = << >> /\ cb # "warm_up"

\* C15: while the OptimizationSetting has no target name or no parameter at all,
\* run_optimization and run_ga_optimization start nothing (no task is submitted, no
\* search begins, optimize is never called and the cache gains no entry) and return
\* no result list.
C15_NothingStarted ==
    [][ (target_name = "" \/ params = << >>) =>
            /\ opt_pc' = "idle"
            /\ tasks' \in {tasks, << >>}
            /\ cache' = cache
            /\ result_values' \in {result_values, None} ]_vars

\* the value list stored under a name (the empty sequence when the name is absent)
C17_Values(ps, name) ==
    IF \E i \in 1 .. Len(ps) : ps[i].name = name
    THEN (CHOOSE e \in {ps[i] : i \in 1 .. Len(ps)} : e.name = name).values
    ELSE << >>

\* start, start + step, start + 2 * step, ... as far as the values are <= end
C17_Range(first, end, step) ==
    [k \in 1 .. ((end - first) \div step) + 1 |-> first + (k - 1) * step]

\* a range call: end and step given, start < end and step > 0
C17_RangeCall(c) ==
    c.end # NoArg /\ c.step # NoArg /\ c.start < c.end /\ c.step > 0

\* a call with only start
C17_SingleCall(c) == c.end = NoArg /\ c.step = NoArg

\* a call with start >= end or step <= 0
C17_InvalidCall(c) ==
    (c.end # NoArg /\ c.start >= c.end) \/ (c.step # NoArg /\ c.step <= 0)

\* the settings are exactly the points of the Cartesian product of the value lists:
\* each setting gives every name one of its values, every point is there, once
C17_Product(ps) ==
    LET settings == generate_setting(ps)
        points == { f \in [1 .. Len(ps) -> 0 .. MaxParam] :
                      \A i \in 1 .. Len(ps) :
                          \E j \in 1 .. Len(ps[i].values) : ps[i].values[j] = f[i] }
        point(setting) == [i \in 1 .. Len(ps) |-> setting[i].value]
    IN  /\ \A k \in 1 .. Len(settings) :
              /\ point(settings[k]) \in points
              /\ \A i \in 1 .. Len(ps) : settings[k][i].name = ps[i].name
        /\ \A f \in points :
              Cardinality({k \in 1 .. Len(settings) : point(settings[k]) = f}) = 1

\* C17: add_parameter(name, start, end, step) with start < end and step > 0 stores
\* exactly the values start + k * step that are <= end, in increasing order from
\* start; add_parameter(name, start) stores [start]; a call with start >= end or
\* step <= 0 leaves params unchanged; generate_setting returns exactly one setting
\* per point of the Cartesian product of the stored value lists.
C17_AddParameter ==
    [][ opt_call' # opt_call =>
            LET c == opt_call'
            IN  /\ C17_RangeCall(c) =>
                      C17_Values(params', c.name) = C17_Range(c.start, c.end, c.step)
                /\ C17_SingleCall(c) => C17_Values(params', c.name) = << c.start >>
                /\ C17_InvalidCall(c) => params' = params
                /\ C17_Product(params') ]_vars

\* C18 (as stated): the list returned by run_optimization is strictly descending by
\* target_value: of two consecutive triples the earlier one's target_value is
\* greater than the later one's.
C18_StrictlyDescending ==
    result_values.kind = "list" =>
        \A k \in 1 .. Len(result_values.list) - 1 :
            result_values.list[k].target_value > result_values.list[k + 1].target_value

\* C18 (amended): the list returned by run_optimization is descending by
\* target_value: of two consecutive triples the earlier one's target_value is
\* greater than or equal to the later one's (equal target values can occur, so the
\* order is not strict).
C18_Descending ==
    result_values.kind = "list" =>
        \A k \in 1 .. Len(result_values.list) - 1 :
            result_values.list[k].target_value >= result_values.list[k + 1].target_value

\* a grid of three settings A, B, C whose targets are ordered A < C < B has been
\* returned as [B, C, A]
C18_Witness ==
    /\ result_values.kind = "list"
    /\ Len(result_values.list) = 3
    /\ LET grid == generate_setting(params)
           list == result_values.list
       IN  /\ Len(grid) = 3
           /\ list[1].setting = grid[2]
           /\ list[2].setting = grid[3]
           /\ list[3].setting = grid[1]
           /\ list[1].target_value > list[2].target_value
           /\ list[2].target_value > list[3].target_value

\* the positions of the returned list that hold the triple of task i
C19_Positions(i) ==
    { p \in 1 .. Len(result_values.list) :
        /\ result_values.list[p].setting = tasks[i]
        /\ result_values.list[p].target_value = task_values[i]
        /\ \E name \in TargetNames :
              result_values.list[p].statistics = [k \in {name} |-> task_values[i]] }

C20_CacheTransparent ==
    ga_last.op = "ga_optimize" => ga_last.returned = ga_last.uncached

----
\* Evaluation of a finished run: calculate_result, calculate_trade_result and
\* calculate_statistics on the trade ledger and the daily closes that a Bar-mode run
\* of limit orders has left, under the contract terms of set_parameters.

MaxTrades == 3      \* longest trade ledger evaluated: MaxTrades trades made on one
                    \* day, one trade fewer over two days
MaxSize   == 2      \* contract sizes are 1..MaxSize
MaxRate   == 1      \* commission rates are 0..MaxRate
MaxSlip   == 1      \* slippages are 0..MaxSlip

Directions == {"LONG", "SHORT"}
Offsets    == {"OPEN", "CLOSE"}
RateTypes  == {"FIXED", "FLOAT"}

\* BacktestingEngine.capital
capital == 1000000

\* the ledgers of k fills made on the days 1..d, in chronological order
Ledgers(k, d) ==
    { [ i \in 1 .. k |->
          [tradeid |-> i, orderid |-> i, direction |-> f[i].direction,
           offset |-> f[i].offset, price |-> f[i].price, volume |-> 1,
           datetime |-> f[i].datetime] ] :
        f \in { g \in [1 .. k -> [direction : Directions, offset : Offsets,
                                  price : Prices, datetime : 1 .. d]] :
                  \A i \in 1 .. k - 1 : g[i].datetime <= g[i + 1].datetime } }

\* the filled limit order behind a trade, and the notifications of its fill
FilledOrder(t) ==
    [orderid |-> t.orderid, direction |-> t.direction, offset |-> t.offset,
     price |-> t.price, volume |-> t.volume, traded |-> t.volume,
     status |-> "ALLTRADED", sent |-> 0]
FillCalls(t) ==
    << OnOrder([FilledOrder(t) EXCEPT !.status = "NOTTRADED"]),
       OnOrder(FilledOrder(t)), OnTrade(t) >>
RECURSIVE AllFillCalls(_)
AllFillCalls(ts) ==
    IF ts = << >> THEN << >> ELSE FillCalls(Head(ts)) \o AllFillCalls(Tail(ts))

\* State after run_backtesting has returned normally: one bar per day, every order
\* filled, nothing evaluated yet.  K[d] is the longest ledger drawn for a run of d
\* days; the cost parameters of set_parameters are drawn from the four sets.
EndOfRun(K, sizes, rate_types, rates, slippages) ==
    /\ mode = "BAR"
    /\ x_second = NoAttr
    /\ days = 0
    /\ callback = FALSE
    /\ pc = "done"
    /\ cb = "none"
    /\ call = NoCall
    /\ \E d \in DOMAIN K :
        /\ daily_results \in
              { [ i \in 1 .. d |-> DailyResult(i, c[i]) ] : c \in [1 .. d -> Prices] }
        /\ trades \in UNION { Ledgers(k, d) : k \in 0 .. K[d] }
        /\ n = d
        /\ datetime = d
    /\ exhausted = TRUE
    /\ data = LET c == daily_results[Len(daily_results)].close_price
              IN  [dt |-> datetime, open_price |-> c, high_price |-> c,
                   low_price |-> c, close_price |-> c]
    /\ day_count = 0
    /\ inited = TRUE
    /\ trading = TRUE
    /\ pos = SumPosChange(trades)
    /\ limit_orders = [ i \in 1 .. Len(trades) |-> FilledOrder(trades[i]) ]
    /\ active_limit_orders = << >>
    /\ stop_orders = << >>
    /\ active_stop_orders = << >>
    /\ snap = << >>
    /\ steps = << "cross_limit_order", "cross_stop_order", "on_bar",
                  "update_daily_close" >>
    /\ calls = AllFillCalls(trades)
    /\ daily_df = NoFrame
    /\ size \in sizes
    /\ rate_type \in rate_types
    /\ rate \in rates
    /\ slippage \in slippages
    /\ trade_result = NoCall
    /\ statistics = NoCall
    /\ interval = "1m"
    /\ loader = NotLoading
    /\ start = NoDate /\ end_ = NoDate
    /\ history_data = Provider
    /\ load_report = "none"
    /\ OptimizationIdle
    /\ AppsIdle

\* runs of one day with up to MaxTrades fills and of two days with one fill less,
\* under every cost setting
InitResult ==
    EndOfRun([d \in 1 .. 2 |-> MaxTrades + 1 - d],
             1 .. MaxSize, RateTypes, 0 .. MaxRate, 0 .. MaxSlip)

\* sum of a sequence of numbers
SumSeq(s) ==
    LET acc[i \in 0 .. Len(s)] == IF i = 0 THEN 0 ELSE acc[i - 1] + s[i]
    IN  acc[Len(s)]

\* calculate_trade_result: volume_count after the first i trades of the ledger
volume_count(ts, i) ==
    LET v[j \in 0 .. i] ==
            IF j = 0 THEN 0
            ELSE IF ts[j].offset = "OPEN" THEN v[j - 1] + ts[j].volume
                                          ELSE v[j - 1] - ts[j].volume
    IN  v[i]

\* calculate_trade_result: the local trade_count after the first i trades
round_count(ts, i) ==
    LET r[j \in 0 .. i] ==
            IF j = 0 THEN 1
            ELSE IF volume_count(ts, j) = 0 THEN r[j - 1] + 1 ELSE r[j - 1]
    IN  r[i]

\* calculate_trade_result: trade_number_list
trade_number_list(ts) == [ i \in 1 .. Len(ts) |-> round_count(ts, i - 1) ]

\* calculate_trade_result: count, the number of trailing trades to rewrite
tail_count(ts) ==
    LET L == Len(ts)
        closes == { c \in 0 .. L - 1 : ts[L - c].offset = "CLOSE" }
    IN  IF ts[L].offset = "OPEN"
        THEN IF closes = {} THEN L - 1
             ELSE CHOOSE c \in closes : \A e \in closes : c <= e
        ELSE 0

\* calculate_trade_result: profit, commission and slippage of a trade as first listed
trade_row(t) ==
    LET profit == IF t.direction = "LONG" THEN size * t.price * t.volume * (-1)
                                          ELSE size * t.price * t.volume * 1
        commission == IF rate_type = "FIXED" THEN t.volume * rate
                                             ELSE size * t.price * t.volume * rate
    IN  [trade_profit |-> profit, trade_commission |-> commission,
         trade_slippage |-> size * slippage]

\* calculate_trade_result: the same of a trade of the rewritten tail
modify_row(t, last_close_price) ==
    LET profit == IF t.direction = "LONG"
                  THEN size * (last_close_price - t.price) * t.volume
                  ELSE size * (t.price - last_close_price) * t.volume
        commission == IF rate_type = "FIXED"
                      THEN 2 * t.volume * rate
                      ELSE size * (last_close_price + t.price) * t.volume * rate
    IN  [trade_profit |-> profit, trade_commission |-> commission,
         trade_slippage |-> 2 * size * slippage]

\* calculate_trade_result: self.daily_df.close_price.to_list()[-1]
last_close_price == daily_df[1][Len(daily_df[1])].close_price

\* calculate_trade_result: the rows of trade_df, by trade
trade_rows(ts) ==
    LET count == tail_count(ts)
    IN  [ i \in 1 .. Len(ts) |->
            LET row == IF i > Len(ts) - count THEN modify_row(ts[i], last_close_price)
                                              ELSE trade_row(ts[i])
            IN  [trade_number |-> trade_number_list(ts)[i],
                 trade_profit |-> row.trade_profit,
                 trade_commission |-> row.trade_commission,
                 trade_slippage |-> row.trade_slippage,
                 final_profit |-> row.trade_profit - row.trade_commission
                                    - row.trade_slippage,
                 rewritten |-> i > Len(ts) - count] ]

\* calculate_trade_result: trade_result_df, one row per trade_number
trade_result_df(rows) ==
    LET numbers == { rows[i].trade_number : i \in 1 .. Len(rows) }
        of(k)   == SelectSeq(rows, LAMBDA row : row.trade_number = k)
        col(k, F(_)) == SumSeq([ i \in 1 .. Len(of(k)) |-> F(of(k)[i]) ])
        final(row) == row.final_profit
        profit(row) == row.trade_profit
        commission(row) == row.trade_commission
        slip(row) == row.trade_slippage
        cum[k \in 0 .. Cardinality(numbers)] ==
            IF k = 0 THEN 0 ELSE cum[k - 1] + col(k, final)
    IN  [ k \in 1 .. Cardinality(numbers) |->
            [trade_number |-> k,
             trade_profit |-> col(k, profit),
             trade_commission |-> col(k, commission),
             trade_slippage |-> col(k, slip),
             final_profit |-> col(k, final),
             cumsum_final |-> cum[k],
             final_balance |-> cum[k] + capital] ]

\* BacktestingEngine.calculate_trade_result(): how the call ends, the rows of
\* trade_df and the frame returned
calculate_trade_result ==
    IF trades = << >>
    THEN [op |-> "calculate_trade_result", outcome |-> "AttributeError",
          rows |-> << >>, returned |-> << >>]
    ELSE IF tail_count(trades) # 0 /\ daily_df = NoFrame
    THEN [op |-> "calculate_trade_result", outcome |-> "AttributeError",
          rows |-> << >>, returned |-> << >>]
    ELSE LET rows == trade_rows(trades)
         IN  [op |-> "calculate_trade_result", outcome |-> "returned",
              rows |-> rows, returned |-> trade_result_df(rows)]

CalculateTradeResult ==
    /\ pc \in {"done", "calculated"} /\ cb = "none"
    /\ trade_result = NoCall
    /\ trade_result' = calculate_trade_result
    /\ UNCHANGED << mode, daily_df, start, end_, history_data, load_report, optimization,
                    costs, statistics, loading, apps, x_second, days, callback, pc, cb, call, feed,
                    day_count, datetime, inited, trading, books, daily_results, snap,
                    steps >>

\* calculate_statistics: the statistics of the no-frame branch
zero_statistics ==
    [total_days |-> 0, profit_days |-> 0, loss_days |-> 0, end_balance |-> 0,
     total_net_pnl |-> 0, total_commission |-> 0, total_slippage |-> 0,
     total_turnover |-> 0, total_trade_count |-> 0, total_trade |-> 0,
     max_profit |-> 0, max_loss |-> 0, profit_times |-> 0, loss_times |-> 0,
     total_profit |-> 0, total_loss |-> 0, trade_profit |-> 0,
     trade_commission |-> 0, trade_slippage |-> 0, final_profit |-> 0]

\* calculate_statistics: the statistics drawn from the daily frame
frame_statistics(df) ==
    LET col(F(_)) == SumSeq([ i \in 1 .. Len(df) |-> F(df[i]) ])
        net_pnl(row) == row.net_pnl
        commission(row) == row.commission
        slip(row) == row.slippage
        turnover(row) == row.turnover
        count(row) == row.trade_count
    IN  [total_days |-> Len(df),
         profit_days |-> Cardinality({ i \in 1 .. Len(df) : df[i].net_pnl > 0 }),
         loss_days |-> Cardinality({ i \in 1 .. Len(df) : df[i].net_pnl < 0 }),
         end_balance |-> col(net_pnl) + capital,
         total_net_pnl |-> col(net_pnl),
         total_commission |-> col(commission),
         total_slippage |-> col(slip),
         total_turnover |-> col(turnover),
         total_trade_count |-> col(count)]

\* calculate_statistics: the statistics drawn from the frame of calculate_trade_result
round_statistics(result) ==
    LET profits == { k \in 1 .. Len(result) : result[k].final_profit >= 0 }
        losses  == { k \in 1 .. Len(result) : result[k].final_profit < 0 }
        final(k) == result[k].final_profit
        sum(S)  == SumSeq([ k \in 1 .. Len(result) |-> IF k \in S THEN final(k) ELSE 0 ])
        col(F(_)) == SumSeq([ k \in 1 .. Len(result) |-> F(result[k]) ])
        profit(row) == row.trade_profit
        commission(row) == row.trade_commission
        slip(row) == row.trade_slippage
    IN  [total_trade |-> Len(result),
         max_profit |-> CHOOSE x \in { final(k) : k \in 1 .. Len(result) } :
                            \A k \in 1 .. Len(result) : final(k) <= x,
         max_loss |-> CHOOSE x \in { final(k) : k \in 1 .. Len(result) } :
                            \A k \in 1 .. Len(result) : final(k) >= x,
         profit_times |-> Cardinality(profits),
         loss_times |-> Cardinality(losses),
         total_profit |-> sum(profits),
         total_loss |-> sum(losses),
         trade_profit |-> col(profit),
         trade_commission |-> col(commission),
         trade_slippage |-> col(slip),
         final_profit |-> result[Len(result)].cumsum_final]

\* two records with disjoint fields as one
Merge(r1, r2) ==
    [ k \in DOMAIN r1 \cup DOMAIN r2 |-> IF k \in DOMAIN r1 THEN r1[k] ELSE r2[k] ]

\* BacktestingEngine.calculate_statistics(output=output): whether it found a daily
\* frame, how the call ends, the line that raises, and the money and count statistics of the map returned (the rates,
\* ratios and drawdowns of the map are real numbers and stay outside the model)
calculate_statistics(output) ==
    LET ended(outcome, line, returned) ==
            [op |-> "calculate_statistics", output |-> output,
             df |-> IF daily_df = NoFrame THEN "None" ELSE "frame",
             outcome |-> outcome, line |-> line, returned |-> returned]
    IN  IF daily_df = NoFrame
        THEN ended("UnboundLocalError", IF output THEN 537 ELSE 579, << >>)
        ELSE LET trade_result_ == calculate_trade_result
                 rounds == round_statistics(trade_result_.returned)
             IN  IF trade_result_.outcome # "returned"
                 THEN ended(trade_result_.outcome, 471, << >>)
                 ELSE IF rounds.profit_times = 0 \/ rounds.loss_times = 0
                 THEN ended("ZeroDivisionError", 481, << >>)
                 ELSE ended("returned", 589,
                            << Merge(frame_statistics(daily_df[1]), rounds) >>)

\* (the columns the call adds to daily_df are functions of net_pnl and capital; the
\* frame is kept as calculate_result built it)
CalculateStatistics ==
    /\ pc \in {"done", "calculated"} /\ cb = "none"
    /\ statistics = NoCall
    /\ \E output \in BOOLEAN : statistics' = calculate_statistics(output)
    /\ UNCHANGED << mode, daily_df, start, end_, history_data, load_report, optimization,
                    costs, trade_result, loading, apps, x_second, days, callback, pc, cb,
                    call, feed,
                    day_count, datetime, inited, trading, books, daily_results, snap,
                    steps >>

NextResult == CalculateResult \/ CalculateTradeResult \/ CalculateStatistics

SpecResult == InitResult /\ [][NextResult]_vars


----
\* Marking to market over two days: runs of one or two days with up to MaxTrades
\* fills, Fixed commission at MaxRate per unit of volume and no slippage, then
\* calculate_result and calculate_statistics.
InitMark ==
    EndOfRun([d \in 1 .. 2 |-> MaxTrades], 1 .. MaxSize, {"FIXED"}, {MaxRate}, {0})

NextMark == CalculateResult \/ CalculateStatistics

SpecMark == InitMark /\ [][NextMark]_vars

----
\* the bar callbacks among the steps of the current run-phase data point
C30_BarCallbacks == SelectSeq(steps, LAMBDA f : f \in {"on_bar", "on_second_bar"})

\* the strategy advertises a sub-minute window
C30_SubMinute == x_second # NoAttr /\ x_second < 60

\* C30: in Bar mode every run-phase bar is delivered through exactly one bar-callback
\* invocation: on_second_bar when the strategy advertises a sub-minute window
\* (x_second < 60), on_bar in every other case (x_second absent, 60, or above 60);
\* on_second_bar is never invoked for a strategy without a sub-minute window.
C30_OneBarCallback ==
    mode = "BAR" =>
        /\ (pc = "run_loop" /\ steps # << >>) =>
              C30_BarCallbacks =
                  << IF C30_SubMinute THEN "on_second_bar" ELSE "on_bar" >>
        /\ cb = "on_second_bar" => C30_SubMinute

----
\* calculate_result called once more on the same engine after it has returned the
\* frame, with no run in between: the DailyResult objects of the first call are
\* the ones the second call works on.
CalculateResultAgain ==
    /\ pc = "calculated" /\ cb = "none"
    /\ IF trades = << >>
       THEN UNCHANGED << daily_results, daily_df >>
       ELSE /\ daily_results' = CalculatePnl(AddTrades(Len(trades)))
            /\ daily_df' = Frame(daily_results')
    /\ pc' = "recalculated"
    /\ UNCHANGED << mode, start, end_, history_data, load_report, optimization, costs,
                    reports, loading, apps, x_second, days, callback, cb, call, feed, day_count,
                    datetime, inited, trading, books, snap, steps >>

NextAgain == CalculateResult \/ CalculateResultAgain

SpecAgain == InitResult /\ [][NextAgain]_vars

----
\* A later run on the same engine: clear_data and add_strategy after a run of at
\* most one fill, then run_backtesting by a strategy that only watches, over a
\* history of at most MaxRerun bars, and the evaluation of that run.

MaxRerun == 3       \* longest history the later run replays

InitRerun ==
    /\ InitResult
    /\ Len(trades) <= 1
    /\ size = 1 /\ rate_type = "FIXED" /\ rate = 0 /\ slippage = 0

\* BacktestingEngine.clear_data, then add_strategy with a new strategy instance;
\* the next run enumerates the history from its start
ClearData ==
    /\ pc \in {"done", "calculated"} /\ cb = "none"
    /\ data' = NoData
    /\ datetime' = NoDate
    /\ stop_orders' = << >> /\ active_stop_orders' = << >>
    /\ limit_orders' = << >> /\ active_limit_orders' = << >>
    /\ trades' = << >>
    /\ daily_results' = << >>
    /\ inited' = FALSE /\ trading' = FALSE /\ pos' = 0
    /\ x_second' = NoAttr
    /\ calls' = << >>
    /\ pc' = "idle"
    /\ call' = NoCall
    /\ n' = 0 /\ exhausted' = FALSE
    /\ snap' = << >> /\ steps' = << >>
    /\ trade_result' = NoCall /\ statistics' = NoCall
    /\ UNCHANGED << mode, daily_df, start, end_, history_data, load_report, optimization,
                    costs, loading, apps, days, callback, cb, day_count >>

RerunWarmUp  == n < MaxRerun /\ WarmUp
RerunRunNext == n < MaxRerun /\ RunNext

NextRerun ==
    \/ CalculateResult \/ CalculateStatistics \/ ClearData
    \/ RunBacktesting \/ LoadBar \/ Return
    \/ RerunWarmUp \/ WarmUpEnd \/ Start \/ SetTrading
    \/ RunFirst \/ RerunRunNext \/ RunEnd
    \/ CrossStopOrder \/ DataCallback \/ UpdateDailyClose

SpecRerun == InitRerun /\ [][NextRerun]_vars

----
\* Runs with several fills: a Bar-mode run of at most MaxFillData bars by a strategy
\* that buys and sells up to MaxFills limit or stop orders of volume 1, cancels
\* orders one by one and raises.

MaxFills    == 2    \* orders the strategy submits in one run
MaxFillData == 4    \* longest history replayed

InitFills == Init /\ mode = "BAR"

\* CtaTemplate.buy (Long, Open) / sell (Short, Close) with volume 1
PlaceOrder ==
    \E side \in { << "LONG", "OPEN" >>, << "SHORT", "CLOSE" >> },
       price \in Prices, stop \in BOOLEAN :
        send_order_within(MaxFills, side[1], side[2], price, 1, stop)

FillsWarmUp  == n < MaxFillData /\ WarmUp
FillsRunNext == n < MaxFillData /\ RunNext

NextFills ==
    \/ PlaceOrder \/ CancelOrder \/ LoadBar \/ Return \/ Raise
    \/ RunBacktesting \/ FillsWarmUp \/ WarmUpEnd \/ Start \/ SetTrading
    \/ RunFirst \/ FillsRunNext \/ RunEnd
    \/ LimitPending \/ LimitNotPending \/ LimitNoCross \/ LimitCross
    \/ LimitPopKeyError \/ LimitTrade \/ CrossStopOrder
    \/ StopNoCross \/ StopCross \/ StopPushOrder \/ StopPushTrade
    \/ DataCallback \/ UpdateDailyClose

SpecFills == InitFills /\ [][NextFills]_vars

----
\* Crossing passes with callbacks that act on the other orders: a Bar-mode run of at
\* most MaxPassData bars by a strategy that buys and sells up to MaxFills limit or
\* stop orders of volume 1 and cancels any of them, from any callback.

MaxPassData == 3    \* longest history replayed

\* CtaTemplate.cancel_order with the id of any of the MaxFills orders
PassCancelOrder ==
    \E p \in {gateway_name, STOPORDER_PREFIX}, k \in 1 .. MaxFills :
        cancel_order([prefix |-> p, seq |-> k])

PassWarmUp  == n < MaxPassData /\ WarmUp
PassRunNext == n < MaxPassData /\ RunNext

NextPass ==
    \/ PlaceOrder \/ PassCancelOrder \/ LoadBar \/ Return \/ Raise
    \/ RunBacktesting \/ PassWarmUp \/ WarmUpEnd \/ Start \/ SetTrading
    \/ RunFirst \/ PassRunNext \/ RunEnd
    \/ LimitPending \/ LimitNotPending \/ LimitNoCross \/ LimitCross
    \/ LimitPopKeyError \/ LimitTrade \/ CrossStopOrder
    \/ StopNoCross \/ StopCross \/ StopPushOrder \/ StopPushTrade
    \/ DataCallback \/ UpdateDailyClose

SpecPass == InitFills /\ [][NextPass]_vars

----
\* load_data window by window.  In this specification start, end, the loader's
\* locals and the data points of history_data are times in minutes.

MaxWindows == 3     \* windows the longest loaded range needs

Minute == 1
Hour   == 60 * Minute
Day    == 24 * Hour
Week   == 7 * Day

\* datetime.now()
NowMinute == Now * Day

\* vnpy.trader.constant.Interval
Intervals == {"1m", "1h", "d", "w"}

\* vnpy.app.cta_strategy.base.INTERVAL_DELTA_MAP
INTERVAL_DELTA_MAP ==
    [ i \in Intervals |->
        CASE i = "1m" -> Minute [] i = "1h" -> Hour [] i = "d" -> Day [] i = "w" -> Week ]

\* load_data: progress_delta
progress_delta == 30 * Day

\* the configured ranges: such that up to MaxWindows windows are needed
LoadStarts == {Day}
LoadSpans ==
    { k * progress_delta + r :
        k \in 0 .. MaxWindows - 1,
        r \in {0, Minute, Hour, Hour + Minute, Day, Week, Week + Minute,
               2 * Week + Minute} }
LoadEnds(s) == {NoDate} \cup { s + span : span \in LoadSpans }

\* what load_bar_data / load_tick_data may return for the window [s, e]
LoaderData(s, e) == { << >>, << s >>, << e >>, << s, e >> }

InitLoad ==
    /\ EngineInit
    /\ AppsIdle
    /\ start \in LoadStarts
    /\ end_ \in LoadEnds(start)
    /\ interval \in Intervals
    /\ history_data \in {<< >>, << 0 >>}
    /\ load_report = "none"
    /\ OptimizationIdle

\* load_data that starts the next window at the end of the last one
next_start_at_end(end, interval_delta) == end

\* load_data: start = end + interval_delta
next_start(end, interval_delta) == end + interval_delta

\* load_data up to the while loop
LoadDataStart ==
    /\ pc = "idle" /\ loader.pc = "idle"
    /\ end_' = IF end_ = NoDate THEN NowMinute ELSE end_
    /\ IF start >= end_'
       THEN /\ load_report' = "invalid"
            /\ loader' = [pc |-> "returned", calls |-> << >>]
            /\ UNCHANGED history_data
       ELSE /\ history_data' = << >>
            /\ loader' = [pc |-> "loop", start |-> start, end |-> start + progress_delta,
                          calls |-> << >>]
            /\ UNCHANGED load_report
    /\ UNCHANGED << engine_but_loader, apps, start, optimization >>

\* load_data: one iteration of the while loop
LoadWindow ==
    /\ loader.pc = "loop"
    /\ loader.start < end_
    /\ LET end == Min(loader.end, end_)
           interval_delta == INTERVAL_DELTA_MAP[interval]
       IN  \E loaded \in LoaderData(loader.start, end) :
               /\ history_data' = history_data \o loaded
               /\ loader' = [pc |-> "loop",
                             start |-> next_start(end, interval_delta),
                             end |-> end + (progress_delta + interval_delta),
                             calls |-> Append(loader.calls,
                                              [start |-> loader.start, end |-> end,
                                               data |-> loaded])]
    /\ UNCHANGED << engine_but_loader, apps, start, end_, load_report, optimization >>

\* load_data: the while loop ends
LoadDataEnd ==
    /\ loader.pc = "loop"
    /\ ~(loader.start < end_)
    /\ loader' = [loader EXCEPT !.pc = "returned"]
    /\ load_report' = "loaded"
    /\ UNCHANGED << engine_but_loader, apps, start, end_, history_data, optimization >>

NextLoad == LoadDataStart \/ LoadWindow \/ LoadDataEnd

SpecLoad == InitLoad /\ [][NextLoad]_vars /\ WF_vars(NextLoad)

----
\* the trades of the ledger made on day d
C22_DayTrades(d) == SelectSeq(trades, LAMBDA t : t.datetime = d)

C22_Signed(t) == IF t.direction = "LONG" THEN t.volume ELSE 0 - t.volume
C22_Turnover(t) == t.volume * size * t.price
C22_Commission(t) ==
    IF rate_type = "FIXED" THEN t.volume * rate ELSE C22_Turnover(t) * rate
C22_Slippage(t) == t.volume * size * slippage

\* the figures of day i of the daily ledger, against the day before
C22_Day(i) ==
    LET dr == daily_results[i]
        on == C22_DayTrades(dr.date)
        pnl(t) == C22_Signed(t) * (dr.close_price - t.price) * size
        sum(F(_)) == SumSeq([ j \in 1 .. Len(on) |-> F(on[j]) ])
    IN  /\ dr.start_pos = IF i = 1 THEN 0 ELSE daily_results[i - 1].end_pos
        /\ i > 1 => dr.pre_close = daily_results[i - 1].close_price
        /\ dr.end_pos = dr.start_pos + sum(C22_Signed)
        /\ dr.holding_pnl = dr.start_pos * (dr.close_price - dr.pre_close) * size
        /\ dr.trading_pnl = sum(pnl)
        /\ dr.turnover = sum(C22_Turnover)
        /\ dr.commission = sum(C22_Commission)
        /\ dr.slippage = sum(C22_Slippage)
        /\ dr.total_pnl = dr.trading_pnl + dr.holding_pnl
        /\ dr.net_pnl = dr.trading_pnl + dr.holding_pnl - dr.commission - dr.slippage

----
\* calculate_trade_result has returned the round-trip ledger of the trade ledger
C23_Returned == trade_result # NoCall /\ trade_result.outcome = "returned"

\* net signed position after the first i trades of the ledger
C23_Net(i) ==
    SumSeq([ j \in 1 .. i |-> IF trades[j].direction = "LONG" THEN trades[j].volume
                                                              ELSE 0 - trades[j].volume ])

\* C23: in the round-trip ledger the round number starts at 1 and advances from
\* one trade to the next exactly when the net signed position (Long +volume, Short
\* -volume) is zero after the earlier trade, for any sequence of buy/sell/short/cover
\* fills.
C23_RoundAtFlat ==
    C23_Returned =>
        /\ trade_result.rows[1].trade_number = 1
        /\ \A i \in 1 .. Len(trades) - 1 :
              /\ trade_result.rows[i + 1].trade_number \in
                    { trade_result.rows[i].trade_number,
                      trade_result.rows[i].trade_number + 1 }
              /\ trade_result.rows[i + 1].trade_number =
                    trade_result.rows[i].trade_number + 1  <=>  C23_Net(i) = 0

\* the volume counter v after the last trade: opening volume less closing volume
C24_V ==
    SumSeq([ j \in 1 .. Len(trades) |-> IF trades[j].offset = "OPEN"
                                        THEN trades[j].volume
                                        ELSE 0 - trades[j].volume ])

\* the trades whose profit, commission and slippage were rewritten
C24_Rewritten == { i \in 1 .. Len(trades) : trade_result.rows[i].rewritten }

\* C24: calculate_trade_result applies the tail rewrite if and only if the volume
\* counter v is non-zero after the last trade of the ledger; when v = 0 no trade is
\* rewritten.
C24_RewriteIffDangling ==
    C23_Returned => (C24_Rewritten # {} <=> C24_V # 0)

\* position of the last closing trade of the ledger, 0 when there is none
C25_LastClose ==
    LET closes == { i \in 1 .. Len(trades) : trades[i].offset = "CLOSE" }
    IN  IF closes = {} THEN 0 ELSE CHOOSE i \in closes : \A j \in closes : j <= i

\* the figures the rewrite gives trade i
C25_RewrittenRow(i) ==
    LET t == trades[i]
        row == trade_result.rows[i]
        close == daily_results[Len(daily_results)].close_price
    IN  /\ row.trade_profit =
              IF t.direction = "LONG" THEN size * (close - t.price) * t.volume
                                      ELSE 0 - size * (close - t.price) * t.volume
        /\ row.trade_commission =
              IF rate_type = "FIXED" THEN 2 * (t.volume * rate)
                                     ELSE size * (close + t.price) * t.volume * rate
        /\ row.trade_slippage = 2 * (size * slippage)

\* C25: when the ledger ends with a dangling open (v # 0), the rewritten trades are
\* exactly the trades after the last closing trade, the whole ledger when it has
\* no closing trade, and each of them gets the rewritten profit, commission and
\* slippage.
C25_TailRewritten ==
    (C23_Returned /\ C24_V # 0) =>
        /\ C24_Rewritten = C25_LastClose + 1 .. Len(trades)
        /\ \A i \in C24_Rewritten : C25_RewrittenRow(i)

----
\* C26: whenever the trade ledger holds at least one trade and calculate_result has
\* built the daily frame, calculate_statistics completes and returns the statistics
\* map, in particular when no round trip is losing and when none is winning.
C26_StatisticsComplete ==
    (statistics # NoCall /\ trades # << >> /\ statistics.df = "frame") =>
        /\ statistics.outcome = "returned"
        /\ Len(statistics.returned) = 1

\* C28: calculate_statistics called on a run that produced no trades (no daily
\* frame) returns the statistics map with every numeric statistic 0, with output
\* enabled and with output disabled.
C28_NoTradesAllZero ==
    (statistics # NoCall /\ trades = << >> /\ statistics.df = "None") =>
        /\ statistics.outcome = "returned"
        /\ statistics.returned = << zero_statistics >>

----
\* C21: after clear_data (and add_strategy) nothing the earlier run produced is left
\* in the engine: books, ledger, counters, position, daily results and daily frame
\* are those of a fresh engine, and a later run that produces no trades is
\* evaluated as on a fresh engine, from no daily frame.
C21_NoCarryOver ==
    /\ pc = "idle" =>
          /\ BooksEmpty
          /\ limit_order_count = 0 /\ stop_order_count = 0 /\ trade_count = 0
          /\ pos = 0 /\ ~inited /\ ~trading
          /\ datetime = NoDate /\ data = NoData
          /\ daily_results = << >>
          /\ daily_df = NoFrame
    /\ (statistics # NoCall /\ trades = << >>) => statistics.df = "None"

----
\* the k-th notification pushed to the strategy is on_order(id, status)
C29_IsOrder(k, id, status) ==
    calls[k] = [cb |-> "on_order", id |-> id, status |-> status]

\* the k-th notification is the on_trade of a fill: what the strategy has received
\* before it for the order of that fill
C29_Before(k) ==
    LET id == trades[calls[k].id].orderid
    IN  \E j \in 1 .. k - 1 :
            /\ C29_IsOrder(j, id, "ALLTRADED")
            /\ \A i \in 1 .. Len(calls) : C29_IsOrder(i, id, "ALLTRADED") => i = j
            /\ IF id \in Synthesized
               THEN \E i \in 1 .. j - 1 :
                        /\ calls[i].cb = "on_stop_order"
                        /\ calls[i].status = "TRIGGERED"
                        /\ id \in Range(stop_orders[calls[i].id].vt_orderids)
               ELSE \E i \in 1 .. j - 1 : C29_IsOrder(i, id, "NOTTRADED")

\* the trades whose on_trade the strategy has received
C29_Notified ==
    SelectSeq(trades, LAMBDA t : \E k \in 1 .. Len(calls) :
                                    calls[k].cb = "on_trade" /\ calls[k].id = t.tradeid)

\* C29: a limit order that fills is pushed as on_order(NotTraded) (once, while it
\* was Submitting), then on_order(AllTraded), then on_trade; a triggered stop as
\* on_stop_order(Triggered), then on_order(AllTraded), then on_trade; strategy.pos
\* counts exactly the fills whose on_trade has been invoked, so it excludes the
\* fill during on_order and includes it during on_trade; and the trade ids of the
\* ledger are strictly increasing.
C29_FillNotifications ==
    /\ \A k \in 1 .. Len(calls) :
          calls[k].cb = "on_trade" =>
              /\ C29_Before(k)
              /\ \A i \in 1 .. Len(calls) :
                    (calls[i].cb = "on_trade" /\ calls[i].id = calls[k].id) => i = k
    /\ \A i \in 1 .. Len(trades) :
          pc \notin {"stop_on_order", "stop_pos", "aborted", "calculated", "raised"} =>
              \E k \in 1 .. Len(calls) : calls[k] = OnTrade(trades[i])
    /\ pos = SumPosChange(C29_Notified)
    /\ \A i \in 1 .. Len(trades) - 1 : trades[i].tradeid < trades[i + 1].tradeid

\* the strategy is inside on_trade of the second fill of a run in which a stop
\* order and a limit order have filled, both on the same side
C29_Witness ==
    /\ cb = "on_trade" /\ Len(trades) = 2
    /\ Synthesized # {} /\ Cardinality(Synthesized) = 1
    /\ pos \in {2, -2}
    /\ Len(calls) >= 6

----
\* the loader calls load_data has made so far, and the step of the interval
C27_Calls == IF loader.pc = "idle" THEN << >> ELSE loader.calls
C27_Delta ==
    CASE interval = "1m" -> 1 [] interval = "1h" -> 60
      [] interval = "d" -> 24 * 60 [] interval = "w" -> 7 * 24 * 60

\* the data of the first k loader calls, concatenated in call order
C27_Loaded(k) ==
    LET acc[i \in 0 .. k] == IF i = 0 THEN << >> ELSE acc[i - 1] \o C27_Calls[i].data
    IN  acc[k]

C27_Windows ==
    LET c == C27_Calls
        thirty_days == 30 * 24 * 60
    IN  /\ c # << >> => c[1].start = start
        /\ \A i \in 1 .. Len(c) :
              /\ c[i].end = Min(c[i].start + thirty_days, end_)
              /\ c[i].start < c[i].end
              /\ c[i].end <= end_
        /\ \A i \in 1 .. Len(c) - 1 : c[i + 1].start = c[i].end + C27_Delta
        /\ \A i \in 1 .. Len(c) : \A j \in i + 1 .. Len(c) : c[i].end < c[j].start
        /\ loader.pc \in {"loop", "returned"} /\ load_report # "invalid" =>
              history_data = C27_Loaded(Len(c))
        /\ (loader.pc = "returned" /\ load_report = "loaded") =>
              /\ start < end_
              /\ c # << >> /\ end_ <= c[Len(c)].end + C27_Delta

\* C27: for any start < end, load_data terminates; its loader calls use the windows
\* [s_i, e_i] with s_1 = start, e_i = min(s_i + 30 days, end) and s_(i+1) = e_i +
\* interval_delta (1 minute, 1 hour, 1 day, 1 week); the windows are pairwise
\* disjoint and strictly increasing, none extends past end, and history_data is the
\* loaded data concatenated in window order.
C27_LoadWindows ==
    /\ []C27_Windows
    /\ (loader.pc = "loop") ~> (loader.pc = "returned" /\ load_report = "loaded")

\* load_data has returned after MaxWindows loader calls at weekly interval, the
\* last window cut at end, with data from the first and the last window
C27_Witness ==
    /\ loader.pc = "returned" /\ load_report = "loaded"
    /\ interval = "w"
    /\ Len(loader.calls) = MaxWindows
    /\ loader.calls[MaxWindows].end < loader.calls[MaxWindows].start + progress_delta
    /\ loader.calls[1].data # << >> /\ loader.calls[2].data = << >>
    /\ loader.calls[MaxWindows].data # << >>

----
\* C31: a cancelled order is final: a limit order or stop order whose status is
\* Cancelled keeps that status in every later step, no trade is recorded for it, and
\* no step that records a trade of it moves strategy.pos, also when the cancel was
\* made from a callback during a crossing pass.
C31_LimitFinal ==
    \A k \in 1 .. Len(limit_orders) :
        limit_orders[k].status = "CANCELLED" =>
            /\ limit_orders'[k].status = "CANCELLED"
            /\ \A j \in 1 .. Len(trades') : trades'[j].orderid # k
C31_StopFinal ==
    \A k \in 1 .. Len(stop_orders) :
        stop_orders[k].status = "CANCELLED" =>
            /\ stop_orders'[k].status = "CANCELLED"
            /\ stop_orders'[k].vt_orderids = << >>
\* C31 as a property of every step: a cancelled limit order and a cancelled stop
\* order stay cancelled and get no trade
C31_CancelledFinal == [][ C31_LimitFinal /\ C31_StopFinal ]_vars

----
\* C32: an order submitted while data point k is being processed is never filled
\* or triggered during data point k: a limit order becomes AllTraded, and a stop
\* order becomes Triggered, only on a data point later than the one it was sent on.
C32_LimitLater ==
    \A k \in 1 .. Len(limit_orders) :
        (limit_orders[k].status # "ALLTRADED" /\ limit_orders'[k].status = "ALLTRADED")
            => limit_orders[k].sent < n
C32_StopLater ==
    \A k \in 1 .. Len(stop_orders) :
        (stop_orders[k].status # "TRIGGERED" /\ stop_orders'[k].status = "TRIGGERED")
            => stop_orders[k].sent < n
\* C32 as a property of every step: an order is filled or triggered only on a data
\* point later than the one it was sent on
C32_NextDataPoint == [][ C32_LimitLater /\ C32_StopLater ]_vars

----
\* C33: after run_backtesting, completed or ended by an exception of the strategy,
\* every trade of the ledger has a DailyResult for its date in daily_results, and
\* calculate_result does not end in the KeyError of self.daily_results[d].
C33_Booked(j) ==
    \E i \in 1 .. Len(daily_results) :
        daily_results[i].date = DateOf(trades[j].datetime)
\* C33: once the run has ended, every trade of the ledger has its DailyResult
C33_EveryTradeBooked ==
    /\ pc \in {"done", "aborted"} => \A j \in 1 .. Len(trades) : C33_Booked(j)
    /\ pc = "raised" => trades = << >>

----
\* C34: calculate_result is idempotent on a finished run: a second call without a
\* run in between leaves every day with the trades, trade_count, end_pos, turnover,
\* commission, slippage, trading_pnl and net_pnl of the first call.
C34_SameDay(a, b) ==
    /\ a.trades = b.trades
    /\ a.trade_count = b.trade_count
    /\ a.end_pos = b.end_pos
    /\ a.turnover = b.turnover
    /\ a.commission = b.commission
    /\ a.slippage = b.slippage
    /\ a.trading_pnl = b.trading_pnl
    /\ a.net_pnl = b.net_pnl
\* C34 as a property of the second call: it leaves every day as the first call
\* left it
C34_Idempotent ==
    [][ (pc = "calculated" /\ pc' = "recalculated") =>
            /\ Len(daily_results') = Len(daily_results)
            /\ \A i \in 1 .. Len(daily_results) :
                    C34_SameDay(daily_results'[i], daily_results[i]) ]_vars

----
\* C35: mark-to-market telescoping for a normal contract with positive prices: once
\* calculate_result has built the frame, the sum over the days of total_pnl equals
\* the sum over the trades of pos_change * (close of the last day - trade.price) *
\* size, and the end_balance that calculate_statistics returns from that frame is
\* capital plus the sum over the days of net_pnl.
C35_TotalPnl == SumSeq([ i \in 1 .. Len(daily_results) |-> daily_results[i].total_pnl ])
C35_NetPnl   == SumSeq([ i \in 1 .. Len(daily_results) |-> daily_results[i].net_pnl ])
C35_LastClose == daily_results[Len(daily_results)].close_price
C35_Marked ==
    SumSeq([ j \in 1 .. Len(trades) |->
               (IF trades[j].direction = "LONG" THEN trades[j].volume
                                                ELSE 0 - trades[j].volume)
               * (C35_LastClose - trades[j].price) * size ])
\* C35: the two sums, once the frame is built and once statistics are returned
C35_Telescoping ==
    (pc = "calculated" /\ trades # << >>) =>
        /\ C35_TotalPnl = C35_Marked
        /\ (statistics # NoCall /\ statistics.df = "frame"
                /\ statistics.outcome = "returned") =>
              statistics.returned[1].end_balance - capital = C35_NetPnl

\* a position opened on the first day and marked at a different close on the
\* second, with costs, in a ledger whose statistics were returned
C35_Witness ==
    /\ pc = "calculated" /\ Len(daily_results) = 2
    /\ daily_results[2].holding_pnl # 0
    /\ daily_results[1].close_price # daily_results[2].close_price
    /\ C35_Marked # 0
    /\ C35_NetPnl # C35_TotalPnl
    /\ statistics # NoCall /\ statistics.df = "frame"
    /\ statistics.outcome = "returned"

----
\* C36: book consistency between data points, that is when a data point has been
\* processed to its end and the run goes on or ends normally: the active limit book
\* holds exactly the limit orders that are Submitting or NotTraded, the active stop
\* book exactly the stop orders that are Waiting, every AllTraded order has exactly
\* one trade and every trade belongs to an AllTraded order, and the three counters
\* are the sizes of limit_orders, stop_orders and trades, each id given out once.
C36_BetweenDataPoints == pc \in {"run_loop", "done"} /\ cb = "none"
C36_TradesOf(k) == { j \in 1 .. Len(trades) : trades[j].orderid = k }
C36_Books ==
    /\ Range(active_limit_orders) =
          { k \in 1 .. Len(limit_orders) :
              limit_orders[k].status \in {"SUBMITTING", "NOTTRADED"} }
    /\ Len(active_limit_orders) = Cardinality(Range(active_limit_orders))
    /\ Range(active_stop_orders) =
          { k \in 1 .. Len(stop_orders) : stop_orders[k].status = "WAITING" }
    /\ Len(active_stop_orders) = Cardinality(Range(active_stop_orders))
    /\ \A k \in 1 .. Len(limit_orders) :
          limit_orders[k].status = "ALLTRADED" => Cardinality(C36_TradesOf(k)) = 1
    /\ \A j \in 1 .. Len(trades) :
          /\ trades[j].orderid \in 1 .. Len(limit_orders)
          /\ limit_orders[trades[j].orderid].status = "ALLTRADED"
    /\ \A k \in 1 .. limit_order_count : limit_orders[k].orderid = k
    /\ \A k \in 1 .. stop_order_count : stop_orders[k].stop_orderid = k
    /\ \A j \in 1 .. trade_count : trades[j].tradeid = j
----
\* ChartWizardEngine (vnpy/app/chart_wizard/engine.py)

MaxRequests == 3

EVENT_CHART_HISTORY == "eChartHistory"

\* values of SETTINGS["datasource.api"]: the default of setting.py, the three names
\* the engine knows, and a name it does not know (SETTINGS is updated from the
\* user's setting file)
DatasourceApis == {"", "jqdata", "tqdata", "rqdata", "other"}

\* what main_engine.get_contract returns: None, a contract whose gateway serves
\* history, or a contract whose gateway does not
Contracts == {"None", "history_data", "no_history_data"}

\* the local variable data of _query_history: unbound, or bound to what a source
\* returned for the request
Unbound == << >>
Bound(request, source) == << [request |-> request, source |-> source] >>

Event(type, data_) == [type |-> type, data |-> data_]

InitChart ==
    /\ EngineInit
    /\ interval = "1m"
    /\ start = NoDate /\ end_ = NoDate
    /\ history_data = Provider
    /\ load_report = "none"
    /\ OptimizationIdle
    /\ datasource_api \in DatasourceApis
    /\ threads = << >>
    /\ event_queue = << >>
    /\ TargetPosInit
    /\ BalanceUnset

\* query_history: creates and starts the worker thread of one more request
query_history ==
    /\ Len(threads) < MaxRequests
    /\ threads' = Append(threads, [pc |-> "started", data |-> Unbound])
    /\ UNCHANGED << engine, start, end_, history_data, load_report, optimization,
                    datasource_api,
                    event_queue, targeting, balancing >>

\* the if/elif chain of _query_history for request r with the contract found
fetch(r, contract) ==
    IF contract # "None"
    THEN IF contract = "history_data"
         THEN Bound(r, "gateway")
         ELSE IF datasource_api = "jqdata" \/ datasource_api = "tqdata"
              THEN Bound(r, "jqdata_client")
              ELSE IF datasource_api = "rqdata"
                   THEN Bound(r, "rqdata_client")
                   ELSE Unbound
    ELSE Bound(r, "database")

\* _query_history of thread r up to the end of the if/else: the contract is looked up
\* and the matching source queried
QueryBranch(r) ==
    /\ r \in DOMAIN threads
    /\ threads[r].pc = "started"
    /\ \E contract \in Contracts :
          threads' = [threads EXCEPT ![r] = [pc |-> "fetched",
                                             data |-> fetch(r, contract)]]
    /\ UNCHANGED << engine, start, end_, history_data, load_report, optimization,
                    datasource_api,
                    event_queue, targeting, balancing >>

\* the last two lines of _query_history: the event is built from data and put; reading
\* an unbound local raises UnboundLocalError, which ends the thread
PutEvent(r) ==
    /\ r \in DOMAIN threads
    /\ threads[r].pc = "fetched"
    /\ IF threads[r].data = Unbound
       THEN /\ threads' = [threads EXCEPT ![r].pc = "raised"]
            /\ UNCHANGED event_queue
       ELSE /\ event_queue' = Append(event_queue,
                                     Event(EVENT_CHART_HISTORY, threads[r].data[1]))
            /\ threads' = [threads EXCEPT ![r].pc = "returned"]
    /\ UNCHANGED << engine, start, end_, history_data, load_report, optimization,
                    datasource_api,
                    targeting, balancing >>

ThreadStep(r) == QueryBranch(r) \/ PutEvent(r)

NextChart ==
    \/ query_history
    \/ \E r \in 1 .. MaxRequests : QueryBranch(r)
    \/ \E r \in 1 .. MaxRequests : PutEvent(r)

\* every started thread is scheduled until it ends
SpecChart ==
    /\ InitChart
    /\ [][NextChart]_vars
    /\ \A r \in 1 .. MaxRequests : WF_vars(ThreadStep(r))

\* the events on the event engine that carry the data of request r
EventsOf(r) ==
    { k \in 1 .. Len(event_queue) :
        /\ event_queue[k].type = EVENT_CHART_HISTORY
        /\ event_queue[k].data.request = r }

\* C37: every query_history request eventually has exactly one EVENT_CHART_HISTORY
\* event with its data on the event engine, and never more than one, whichever
\* branch serves it and however the worker threads interleave
C37_AtMostOne == \A r \in 1 .. MaxRequests : Cardinality(EventsOf(r)) <= 1
C37_Requested(r) == r \in DOMAIN threads
C37_Served(r) == Cardinality(EventsOf(r)) = 1
\* C37: never more than one event of a request, and every request is eventually
\* served by exactly one
C37_EveryRequestServed ==
    /\ []C37_AtMostOne
    /\ \A r \in 1 .. MaxRequests : C37_Requested(r) ~> C37_Served(r)

----
\* TargetPosTemplate (template.py) on the backtesting engine: a Tick-mode run of at
\* most MaxTargetData ticks by a strategy derived from TargetPosTemplate whose on_tick
\* and on_order call the template's handler first and whose callbacks call
\* set_target_pos with targets in TargetPositions, any number of times.

MaxTargetData   == 3    \* longest history replayed
MaxTargetOrders == 2    \* orders the strategy submits in one run
MaxTargetPos    == 1    \* targets are -MaxTargetPos .. MaxTargetPos

TargetPositions == (0 - MaxTargetPos) .. MaxTargetPos

tick_add == 1

InitTarget == Init /\ mode = "TICK"

\* OrderData.is_active, by status
is_active(status) == status \in {"SUBMITTING", "NOTTRADED", "PARTTRADED"}

\* list.remove: the list without the first occurrence of x
remove(s, x) ==
    LET first == CHOOSE i \in 1 .. Len(s) :
                    s[i] = x /\ \A j \in 1 .. i - 1 : s[j] # x
    IN  [i \in 1 .. Len(s) - 1 |-> IF i < first THEN s[i] ELSE s[i + 1]]

\* TargetPosTemplate.on_order on the two lists
on_order(active, cancel, vt_orderid, status) ==
    IF ~is_active(status)
    THEN [active |-> IF vt_orderid \in Range(active) THEN remove(active, vt_orderid)
                                                     ELSE active,
          cancel |-> IF vt_orderid \in Range(cancel) THEN remove(cancel, vt_orderid)
                                                     ELSE cancel]
    ELSE [active |-> active, cancel |-> cancel]

\* the for loop of cancel_old_order from list index i on (the list is iterated by
\* index while on_order shortens it): cancel_order reaches the engine while the
\* strategy is trading, cancel_limit_order pops an active order, sets it Cancelled
\* and calls on_order before cancel_order returns; then the id is appended to
\* cancel_orderids.  cancelled lists the orders the engine has cancelled so far.
RECURSIVE cancel_old_order_from(_, _, _, _)
cancel_old_order_from(i, active, cancel, cancelled) ==
    IF i > Len(active)
    THEN [active |-> active, cancel |-> cancel, cancelled |-> cancelled]
    ELSE LET vt_orderid == active[i]
             popped == /\ trading
                       /\ vt_orderid.prefix # STOPORDER_PREFIX
                       /\ vt_orderid.seq \in Range(active_limit_orders)
                       /\ vt_orderid.seq \notin Range(cancelled)
             after  == IF popped THEN on_order(active, cancel, vt_orderid, "CANCELLED")
                                 ELSE [active |-> active, cancel |-> cancel]
         IN  IF vt_orderid \in Range(cancel)
             THEN cancel_old_order_from(i + 1, active, cancel, cancelled)
             ELSE cancel_old_order_from(
                      i + 1, after.active, Append(after.cancel, vt_orderid),
                      IF popped THEN Append(cancelled, vt_orderid.seq) ELSE cancelled)

\* TargetPosTemplate.cancel_old_order
cancel_old_order ==
    LET r  == cancel_old_order_from(1, active_orderids, cancel_orderids, << >>)
        lo == CancelledAll(limit_orders, r.cancelled)
    IN  /\ active_orderids' = r.active
        /\ cancel_orderids' = r.cancel
        /\ limit_orders' = lo
        /\ active_limit_orders' =
               SelectSeq(active_limit_orders, LAMBDA k : k \notin Range(r.cancelled))
        /\ calls' = calls \o [j \in 1 .. Len(r.cancelled) |-> OnOrder(lo[r.cancelled[j]])]
        /\ call' = [op |-> "cancel_old_order"]
        /\ UNCHANGED << pc, cb, stop_orders, active_stop_orders >>

\* TargetPosTemplate.send_new_order with the engine type Backtesting.  Without a
\* last_tick the price is read from last_bar.close_price; in a Tick-mode run last_bar
\* is None or the tick a warm-up callback stored, and the read raises AttributeError.
\* The ticks of the model carry no limit_up / limit_down (TickData's default 0).
send_new_order(tick, target) ==
    LET pos_change  == target - pos
        long_price  == tick[1].ask_price_1 + tick_add
        short_price == tick[1].bid_price_1 - tick_add
        volume      == IF pos_change > 0 THEN pos_change ELSE 0 - pos_change
    IN  IF pos_change = 0
        THEN /\ call' = [op |-> "send_new_order"]
             /\ UNCHANGED << active_orderids, cancel_orderids, limit_orders,
                             active_limit_orders, stop_orders, active_stop_orders,
                             calls, pc, cb >>
        ELSE IF tick = NoTick
        THEN /\ pc' = IF cb \in {"on_init", "on_start"} THEN "raised" ELSE "aborted"
             /\ cb' = "none"
             /\ call' = [op |-> "raise", type |-> "AttributeError"]
             /\ UNCHANGED << active_orderids, cancel_orderids, limit_orders,
                             active_limit_orders, stop_orders, active_stop_orders,
                             calls >>
        ELSE IF trading
        THEN /\ Len(limit_orders) < MaxTargetOrders
             /\ IF pos_change > 0
                THEN engine_send_order("LONG", "OPEN", long_price, volume, FALSE)
                ELSE engine_send_order("SHORT", "OPEN", short_price, volume, FALSE)
             /\ active_orderids' = active_orderids \o call'.ret
             /\ UNCHANGED << cancel_orderids, calls, pc, cb >>
        ELSE /\ call' = [op |-> "send_order", ret |-> << >>]
             /\ UNCHANGED << active_orderids, cancel_orderids, limit_orders,
                             active_limit_orders, stop_orders, active_stop_orders,
                             calls, pc, cb >>

\* TargetPosTemplate.trade, with check_order_finished
trade(tick, target) ==
    IF active_orderids # << >> THEN cancel_old_order ELSE send_new_order(tick, target)

\* TargetPosTemplate.on_tick, called first thing in the strategy's on_tick
TargetOnTick ==
    /\ cb = "on_tick" /\ call = NoCall
    /\ last_tick' = << data >>
    /\ IF trading
       THEN trade(<< data >>, target_pos)
       ELSE /\ call' = [op |-> "on_tick"]
            /\ UNCHANGED << active_orderids, cancel_orderids, limit_orders,
                            active_limit_orders, stop_orders, active_stop_orders,
                            calls, pc, cb >>
    /\ UNCHANGED << mode, daily_df, start, end_, history_data, load_report, optimization,
                    costs, reports, loading, chart, balancing, target_pos, x_second, days,
                    callback, feed, day_count, datetime, inited, trading, pos, trades,
                    daily_results, snap, steps >>

\* TargetPosTemplate.on_order, called first thing in the strategy's on_order with the
\* order the engine has just pushed
TargetOnOrder ==
    /\ cb = "on_order" /\ call = NoCall
    /\ LET order == calls[Len(calls)]
           r     == on_order(active_orderids, cancel_orderids, LimitId(order.id),
                             order.status)
       IN  /\ active_orderids' = r.active
           /\ cancel_orderids' = r.cancel
    /\ call' = [op |-> "on_order"]
    /\ UNCHANGED << mode, daily_df, start, end_, history_data, load_report, optimization,
                    costs, reports, loading, chart, balancing, target_pos, last_tick, x_second,
                    days, callback, pc, cb, feed, day_count, datetime, inited, trading,
                    books, daily_results, snap, steps >>

\* the template's handler has run in the callbacks where the strategy calls it first
HandlerCalled == cb \in {"on_tick", "on_order"} => call # NoCall

\* TargetPosTemplate.set_target_pos, called by the strategy from a callback
set_target_pos(target) ==
    /\ cb # "none" /\ HandlerCalled
    /\ target_pos' = target
    /\ trade(last_tick, target)
    /\ UNCHANGED << mode, daily_df, start, end_, history_data, load_report, optimization,
                    costs, reports, loading, chart, balancing, last_tick, x_second, days,
                    callback, feed, day_count, datetime, inited, trading, pos, trades,
                    daily_results, snap, steps >>

SetTargetPos == \E target \in TargetPositions : set_target_pos(target)

TargetReturn == HandlerCalled /\ Return

TargetWarmUp  == n < MaxTargetData /\ WarmUp
TargetRunNext == n < MaxTargetData /\ RunNext

NextTarget ==
    \/ TargetOnTick \/ TargetOnOrder \/ SetTargetPos \/ TargetReturn \/ LoadBar
    \/ RunBacktesting \/ TargetWarmUp \/ WarmUpEnd \/ Start \/ SetTrading
    \/ RunFirst \/ TargetRunNext \/ RunEnd
    \/ LimitPending \/ LimitNoCross \/ LimitCross \/ LimitTrade
    \/ CrossStopOrder \/ DataCallback \/ UpdateDailyClose

SpecTarget == InitTarget /\ [][NextTarget]_vars

\* C38: in TargetPosTemplate on the backtesting engine cancel_orderids holds only
\* ids that are in active_orderids, so it is empty when no order is outstanding,
\* and active_orderids never holds more than one id
C38_CancelWithinActive == Range(cancel_orderids) \subseteq Range(active_orderids)
C38_NoneOutstanding ==
    active_limit_orders = << >> /\ active_stop_orders = << >> => cancel_orderids = << >>
C38_AtMostOneActive == Len(active_orderids) <= 1
\* C38: the three parts together
C38_OrderLists ==
    /\ C38_CancelWithinActive
    /\ C38_NoneOutstanding
    /\ C38_AtMostOneActive

----
\* CtaTemplate.calculate_balance (template.py), called by the strategy in on_t.
\* In this specification prices, rates, slippage and every amount of money are in
\* thousandths, and the fills handed to on_trade are drawn: a strategy that closes
\* no more than it holds, holds at most MaxNetVolume and makes at most
\* MaxBalanceTrades fills.  The engine's books are not followed here.

MaxBalanceTrades == 4   \* fills in one run
MaxNetVolume     == 2   \* largest trade_net_volume
MaxTradeVolume   == 2   \* volumes of one fill are 1 .. MaxTradeVolume

Milli == 1000

\* prices 4.000 and 8.000, so that the average cost prices are whole thousandths
BalancePrices == {4 * Milli, 8 * Milli}
\* the rate 0.010 (a fee per lot when fixed, a ratio of the turnover when floating)
\* and the slippage 0.010, or none
BalanceRates     == {0, 10}
BalanceSlippages == {0, 10}

BalanceTrades ==
    [direction : Directions, offset : {"OPEN", "CLOSE"}, price : BalancePrices,
     volume : 1 .. MaxTradeVolume]

\* a run in its trading phase, between two bars, with no order sent so far
InitBalance ==
    /\ mode = "BAR"
    /\ x_second = NoAttr
    /\ days = 1
    /\ callback = TRUE
    /\ pc = "run_loop"
    /\ cb = "none"
    /\ call = NoCall
    /\ n = 2
    /\ exhausted = FALSE
    /\ datetime = 2
    /\ data = [dt |-> 2, open_price |-> 1, high_price |-> 1, low_price |-> 1,
               close_price |-> 1]
    /\ daily_results = << DailyResult(2, 1) >>
    /\ day_count = 1
    /\ inited = TRUE
    /\ trading = TRUE
    /\ pos = 0
    /\ limit_orders = << >>
    /\ active_limit_orders = << >>
    /\ stop_orders = << >>
    /\ active_stop_orders = << >>
    /\ trades = << >>
    /\ snap = << >>
    /\ steps = << "cross_limit_order", "cross_stop_order", "on_bar",
                  "update_daily_close" >>
    /\ calls = << >>
    /\ daily_df = NoFrame
    /\ size \in 1 .. MaxSize
    /\ rate_type \in RateTypes
    /\ rate \in BalanceRates
    /\ slippage \in BalanceSlippages
    /\ trade_result = NoCall
    /\ statistics = NoCall
    /\ interval = "1m"
    /\ loader = NotLoading
    /\ start = NoDate /\ end_ = NoDate
    /\ history_data = Provider
    /\ load_report = "none"
    /\ OptimizationIdle
    /\ ChartIdle
    /\ TargetPosInit
    /\ BalanceUnset

\* CtaTemplate.get_contract_data in backtesting: balance starts at the capital
GetContractData ==
    /\ trade_net_volume_list = << >>
    /\ strategy_balance # capital * Milli
    /\ strategy_balance' = capital * Milli
    /\ UNCHANGED << engine, start, end_, history_data, load_report, optimization,
                    chart, targeting,
                    trade_net_volume, open_cost_price, trade_pnl, trade_commission,
                    trade_slippage, strategy_net_pnl, trade_net_volume_list,
                    trade_pnl_list, commission_list, slippage_list >>

\* round(x, 2) of an amount in thousandths: to the nearest hundredth, a tie to the
\* even one
round_2(x) ==
    LET q == x \div 10
        r == x % 10
    IN  IF r < 5 THEN 10 * q
        ELSE IF r > 5 THEN 10 * (q + 1)
        ELSE IF q % 2 = 0 THEN 10 * q ELSE 10 * (q + 1)

\* calculate_balance: commission and slippage of one fill
balance_commission(t) ==
    IF rate_type = "FIXED" THEN t.volume * rate
    ELSE (t.price * t.volume * size * rate) \div Milli
balance_slippage(t) == t.volume * size * slippage

\* calculate_balance: what a closing fill adds to balance, given the round trip's
\* accumulators after this fill
balance_added(t, pnl, commission, slip) ==
    round_2(strategy_net_pnl + pnl - commission - slip)

\* CtaTemplate.calculate_balance in backtesting, with the strategy inited
calculate_balance(t) ==
    LET opening    == t.offset = "OPEN"
        volume     == IF opening THEN trade_net_volume + t.volume
                                 ELSE trade_net_volume - t.volume
        cost       == t.price * t.volume + open_cost_price * trade_net_volume
        cost_price == IF opening THEN cost \div volume ELSE open_cost_price
        pnl        == IF opening THEN trade_pnl
                      ELSE IF t.direction = "LONG"
                      THEN trade_pnl
                           + ((open_cost_price - t.price) * t.volume * size)
                      ELSE trade_pnl
                           + ((t.price - open_cost_price) * t.volume * size)
        commission == trade_commission + balance_commission(t)
        slip       == trade_slippage + balance_slippage(t)
        net        == IF opening THEN strategy_net_pnl
                      ELSE strategy_net_pnl + pnl - commission - slip
    IN  /\ inited
        /\ opening => cost % volume = 0
        /\ strategy_balance' = IF opening THEN strategy_balance
                               ELSE strategy_balance
                                    + balance_added(t, pnl, commission, slip)
        /\ trade_net_volume' = volume
        /\ trade_net_volume_list' = Append(trade_net_volume_list, volume)
        /\ IF volume = 0
           THEN /\ trade_pnl_list' = Append(trade_pnl_list, pnl)
                /\ commission_list' = Append(commission_list, commission)
                /\ slippage_list' = Append(slippage_list, slip)
                /\ open_cost_price' = 0
                /\ trade_pnl' = 0
                /\ trade_commission' = 0
                /\ trade_slippage' = 0
                /\ strategy_net_pnl' = 0
           ELSE /\ open_cost_price' = cost_price
                /\ trade_pnl' = pnl
                /\ trade_commission' = commission
                /\ trade_slippage' = slip
                /\ strategy_net_pnl' = net
                /\ UNCHANGED << trade_pnl_list, commission_list, slippage_list >>

\* on_trade of a strategy that calls calculate_balance, with the fill the engine
\* has made
OnTradeBalance ==
    /\ strategy_balance # 0
    /\ Len(trade_net_volume_list) < MaxBalanceTrades
    /\ \E t \in BalanceTrades :
        /\ IF t.offset = "OPEN"
           THEN trade_net_volume + t.volume <= MaxNetVolume
           ELSE t.volume <= trade_net_volume
        /\ calculate_balance(t)
    /\ UNCHANGED << engine, start, end_, history_data, load_report, optimization,
                    chart, targeting >>

NextBalance == GetContractData \/ OnTradeBalance

SpecBalance == InitBalance /\ [][NextBalance]_vars

\* net result of the round trips completed so far: realised pnl less commission
\* less slippage of each
C39_RoundTrips ==
    SumSeq([i \in 1 .. Len(trade_pnl_list) |->
               trade_pnl_list[i] - commission_list[i] - slippage_list[i]])

\* C39: after every trade that brings trade_net_volume back to 0 the strategy's
\* balance is the initial capital plus the sum over the completed round trips of
\* realised pnl less commission less slippage, partial closes included
C39_BalanceAtFlat ==
    trade_net_volume_list # << >> /\ trade_net_volume = 0
        => strategy_balance = capital * Milli + C39_RoundTrips

----
\* the timestamp t lies inside one of the windows load_data passed to the loader
C40_Covered(t) ==
    \E i \in 1 .. Len(loader.calls) :
        loader.calls[i].start <= t /\ t <= loader.calls[i].end

\* C40: once load_data has loaded the configured range, every timestamp t with
\* start <= t <= end lies inside at least one window passed to the loader
C40_RangeCovered ==
    loader.pc = "returned" /\ load_report = "loaded"
        => \A t \in start .. end_ : C40_Covered(t)

====
